---- MODULE Spec2Model ----
(***************************************************************************)
(* Model of switcheroo, a macOS window switcher.                           *)
(*                                                                         *)
(*  - Spec        : the caching inventory manager (src/src/windows.rs,     *)
(*                  Manager::refresh) driven by a changing OS.             *)
(*  - FocusSpec   : the focus-switch protocol, in both variants            *)
(*                  (src/src/macos.rs Window::focus and                    *)
(*                   src/src/windows.rs Window::focus).                    *)
(*  - EnumSpec    : the one-shot enumeration of the simple variant         *)
(*                  (src/src/macos.rs get_open_app_windows).               *)
(*  - ResolverSpec: the bounded accessibility probe loop                   *)
(*                  (src/src/macos.rs Window::focus_ax, and the            *)
(*                   multi-target resolver the manager calls).             *)
(***************************************************************************)
EXTENDS Integers, Sequences, FiniteSets, TLC

(***************************************************************************)
(* Bounds of the model.                                                    *)
(***************************************************************************)
MaxPid == 1
MaxWid == 2
MaxSpace == 2
MaxEnumWid == 1
MaxEnumSpace == 2
MaxCacheWid == 1
MaxPickWid == 2
MaxPickerIds == 2

Pids == 1..MaxPid
Wids == 1..MaxWid
SpaceIds == 1..MaxSpace

VARIABLES
    os,     \* what the OS would answer to the manager's queries right now
    mgr,    \* windows::Manager {app_map, ax_cache, icon_cache}
    last    \* the last step taken: [op, ok, again]; again = the refresh
            \* directly followed a successful refresh of the same OS state

VARIABLES
    foc,    \* one Window::focus call: its inputs and, once made, its outcome
    rs,     \* one scan of a process's control objects: inputs and outcome
    en,     \* one enumeration: the OS snapshot it reads and, once run, its result
    ic,     \* one icon normalisation: the bitmap and, once run, the result
    pk      \* the picker: the Switcheroo state, the windows being closed, the last message

mvars == <<os, mgr, last>>
vars == <<os, mgr, last, foc, rs, en, ic, pk>>

(***************************************************************************)
(* The OS as the manager sees it.                                          *)
(*   apps[p] : what NSWorkspace.runningApplications reports for pid p      *)
(*   wins    : the live windows (the window info list), a map from window  *)
(*             id to its owning pid and to the accessibility element the   *)
(*             resolver can find for it ("none" when it finds none)        *)
(***************************************************************************)
AppKinds == {"absent", "regular", "noicon", "accessory", "terminated"}

\* the pid is in runningApplications()
IsRunning(k) == k # "absent"
\* app.activationPolicy() == NSApplicationActivationPolicy::Regular
IsRegular(k) == k \in {"regular", "noicon", "terminated"}
\* app.isTerminated()
IsTerminated(k) == k = "terminated"
\* app.icon().and_then(|icon| macos::ns_image_to_rgba(&icon)) is Some
IconOk(k) == k = "regular"

\* identities of accessibility elements (Retained<AXUIElement>)
AxHandles == {"ax1"}

WinStates == [pid : Pids, ax : AxHandles \cup {"none"}]

OsStates == {[apps |-> a, wins |-> ws] :
                a \in [Pids -> AppKinds],
                ws \in UNION {[S -> WinStates] : S \in SUBSET Wids}}

\* outcome of the two fallible queries at the head of refresh
QueryOutcomes == {"ok", "visible_err", "info_err"}

\* maps with a changing key set (HashMap)
EmptyMap == [x \in {} |-> x]
Put(f, k, v) == [x \in (DOMAIN f) \cup {k} |-> IF x = k THEN v ELSE f[x]]
Drop(f, k) == [x \in (DOMAIN f) \ {k} |-> f[x]]

(***************************************************************************)
(* macos::get_window_info_list: the live windows, as {id, pid} records,    *)
(* listed in ascending window id order.                                    *)
(***************************************************************************)
RECURSIVE InfoSeq(_, _)
InfoSeq(o, w) ==
    IF w > MaxWid THEN <<>>
    ELSE (IF w \in DOMAIN o.wins
          THEN <<[id |-> w, pid |-> o.wins[w].pid]>> ELSE <<>>) \o InfoSeq(o, w + 1)

get_window_info_list(o) == InfoSeq(o, 1)

\* windows.rs:33
active_pids(infos) == {infos[i].pid : i \in DOMAIN infos}
\* windows.rs:34
active_wids(infos) == {infos[i].id : i \in DOMAIN infos}

(***************************************************************************)
(* Manager::refresh, step by step.                                         *)
(***************************************************************************)
\* Manager::default()
DefaultManager == [app_map |-> EmptyMap, ax_cache |-> EmptyMap, icon_cache |-> EmptyMap]

\* the normalized icon of a process (its pixels are not modelled here)
IconOf(p) == [pid |-> p]

\* windows.rs:38-47: the running apps that get an App entry
KeptPids(o, apids) ==
    {p \in Pids : /\ IsRunning(o.apps[p])
                  /\ p \in apids
                  /\ IsRegular(o.apps[p])
                  /\ ~IsTerminated(o.apps[p])}

IconFetches_always(icons, kept) == kept

\* windows.rs:53-54: the kept apps whose icon is asked for: app.icon() is
\* behind `!self.icon_cache.contains_key(&pid) &&`
IconFetches(icons, kept) == kept \ DOMAIN icons

IconInsert_placeholder(icons, o, kept) ==
    [p \in (DOMAIN icons) \cup IconFetches(icons, kept) |->
        IF p \in DOMAIN icons THEN icons[p] ELSE IconOf(p)]

\* windows.rs:53-57: fetch the icon of a kept app that has none cached, and
\* insert it if it could be normalized
IconInsert(icons, o, kept) ==
    LET add == {p \in IconFetches(icons, kept) : IconOk(o.apps[p])}
    IN  [p \in (DOMAIN icons) \cup add |->
            IF p \in add THEN IconOf(p) ELSE icons[p]]

\* windows.rs:59: new_app_map.insert(pid, App::new(app.clone(), name))
NewAppMap(kept) == [p \in kept |-> [pid |-> p, windows |-> <<>>]]

RetainAx_keepAll(cache, awids) == cache

RetainAx_dropAll(cache, awids) == EmptyMap

\* windows.rs:62: self.ax_cache.retain(|wid, _| active_wids.contains(wid))
RetainAx(cache, awids) == [w \in (DOMAIN cache) \cap awids |-> cache[w]]

RetainIcons_keepAll(icons, apids) == icons

\* windows.rs:63: self.icon_cache.retain(|pid, _| active_pids.contains(pid))
RetainIcons(icons, apids) == [p \in (DOMAIN icons) \cap apids |-> icons[p]]

UncachedByPid_all(infos, cache) ==
    [p \in {infos[i].pid : i \in DOMAIN infos} |->
        {infos[i].id : i \in {j \in DOMAIN infos : infos[j].pid = p}}]

\* windows.rs:65-70: live windows without a cached handle, grouped by pid
UncachedByPid(infos, cache) ==
    LET un == {i \in DOMAIN infos : infos[i].id \notin DOMAIN cache}
    IN  [p \in {infos[i].pid : i \in un} |->
            {infos[i].id : i \in {j \in un : infos[j].pid = p}}]

\* macos::resolve_ax_for_pid(pid, wids): the handles found for the requested
\* window ids of one process (spec section 4.3).  Within a refresh the scan
\* is taken by its outcome: os.wins[w].ax is the handle the scan finds for
\* window w, if any; resolve_ax_probe below is the scan itself.
resolve_ax_for_pid(o, pid, wids) ==
    [w \in {x \in wids \cap DOMAIN o.wins : o.wins[x].ax # "none"} |-> o.wins[w].ax]

\* windows.rs:72-75: self.ax_cache.extend(resolved) for every pid
ExtendAx(cache, o, uncached) ==
    LET found == UNION {DOMAIN resolve_ax_for_pid(o, p, uncached[p]) :
                            p \in DOMAIN uncached}
        from(w) == CHOOSE p \in DOMAIN uncached :
                        w \in DOMAIN resolve_ax_for_pid(o, p, uncached[p])
    IN  [w \in (DOMAIN cache) \cup found |->
            IF w \in found
            THEN resolve_ax_for_pid(o, from(w), uncached[from(w)])[w]
            ELSE cache[w]]

RECURSIVE AttachWindows_listAll(_, _, _, _)
AttachWindows_listAll(infos, cache, apps, i) ==
    IF i > Len(infos) THEN apps
    ELSE LET info == infos[i]
             nxt == IF info.pid \in DOMAIN apps
                    THEN [apps EXCEPT ![info.pid].windows =
                            Append(@, [id |-> info.id,
                                       ax_element |->
                                          IF info.id \in DOMAIN cache
                                          THEN cache[info.id] ELSE "none"])]
                    ELSE apps
         IN  AttachWindows_listAll(infos, cache, nxt, i + 1)

\* windows.rs:77-87: push a Window for every info with a handle and an App
RECURSIVE AttachWindows(_, _, _, _)
AttachWindows(infos, cache, apps, i) ==
    IF i > Len(infos) THEN apps
    ELSE LET info == infos[i]
             nxt == IF info.id \in DOMAIN cache /\ info.pid \in DOMAIN apps
                    THEN [apps EXCEPT ![info.pid].windows =
                            Append(@, [id |-> info.id,
                                       ax_element |-> cache[info.id]])]
                    ELSE apps
         IN  AttachWindows(infos, cache, nxt, i + 1)

RefreshBody_attachBeforeResolve(m, o) ==
    LET infos  == get_window_info_list(o)
        apids  == active_pids(infos)
        awids  == active_wids(infos)
        kept   == KeptPids(o, apids)
        icons1 == IconInsert(m.icon_cache, o, kept)
        ax1    == RetainAx(m.ax_cache, awids)
        icons2 == RetainIcons(icons1, apids)
        unc    == UncachedByPid(infos, ax1)
        ax2    == ExtendAx(ax1, o, unc)
        apps   == AttachWindows(infos, ax1, NewAppMap(kept), 1)
    IN  [app_map |-> apps, ax_cache |-> ax2, icon_cache |-> icons2]

\* windows.rs:33-90: refresh once both queries have succeeded
RefreshBody(m, o) ==
    LET infos  == get_window_info_list(o)
        apids  == active_pids(infos)
        awids  == active_wids(infos)
        kept   == KeptPids(o, apids)
        icons1 == IconInsert(m.icon_cache, o, kept)
        ax1    == RetainAx(m.ax_cache, awids)
        icons2 == RetainIcons(icons1, apids)
        unc    == UncachedByPid(infos, ax1)
        ax2    == ExtendAx(ax1, o, unc)
        apps   == AttachWindows(infos, ax2, NewAppMap(kept), 1)
    IN  [app_map |-> apps, ax_cache |-> ax2, icon_cache |-> icons2]

\* windows.rs:72-73: the calls of macos::resolve_ax_for_pid made by the loop
\* over uncached_by_pid, as [pid, wids], from process p on
RECURSIVE ResolverCalls(_, _)
ResolverCalls(uncached, p) ==
    IF p > MaxPid THEN <<>>
    ELSE (IF p \in DOMAIN uncached
          THEN <<[pid |-> p, wids |-> uncached[p]]>> ELSE <<>>)
         \o ResolverCalls(uncached, p + 1)

\* windows.rs:33-75: what a refresh asks of the OS while it runs: the icons
\* it fetches and the resolver calls it makes
RefreshLog(m, o) ==
    LET infos == get_window_info_list(o)
        kept  == KeptPids(o, active_pids(infos))
        ax1   == RetainAx(m.ax_cache, active_wids(infos))
    IN  [fetched |-> IconFetches(m.icon_cache, kept),
         resolver |-> ResolverCalls(UncachedByPid(infos, ax1), 1)]

Refresh_resetOnError(m, o, q) ==
    IF q # "ok" THEN [ok |-> FALSE, mgr |-> DefaultManager]
    ELSE [ok |-> TRUE, mgr |-> RefreshBody(m, o)]

Refresh_clearOnError(m, o, q) ==
    IF q = "visible_err" THEN [ok |-> FALSE, mgr |-> m]
    ELSE IF q = "info_err"
         THEN [ok |-> FALSE, mgr |-> [m EXCEPT !.app_map = EmptyMap]]
         ELSE [ok |-> TRUE, mgr |-> RefreshBody(m, o)]

\* windows.rs:27-91: Manager::refresh; q is the outcome of the two `?` queries
Refresh(m, o, q) ==
    IF q # "ok" THEN [ok |-> FALSE, mgr |-> m]
    ELSE [ok |-> TRUE, mgr |-> RefreshBody(m, o)]

\* windows.rs:21-25 and ui.rs:42: Manager::new().unwrap_or_default()
Boot(o, q) ==
    LET r == Refresh(DefaultManager, o, q)
    IN  IF r.ok THEN r.mgr ELSE DefaultManager

(***************************************************************************)
(* The focus-switch protocol.  A focus call is a sequence of OS calls; the *)
(* model keeps them, in order, as records                                  *)
(*    [op, wid, aux, ok, pt]   (and rec, for a posted event record)        *)
(* op  : the OS operation                                                  *)
(* wid : the window id passed (0 when none is)                             *)
(* aux : the flavor byte of a posted event record, the space id answered   *)
(*       by SLSGetActiveSpace, the number of probe requests of a scan      *)
(* ok  : whether the OS reported success                                   *)
(* pt  : the point of a pointer warp                                       *)
(* rec : the bytes of a posted event record, offset o at index o + 1       *)
(* A focus call returns [ok, err, calls]: err names the error returned,    *)
(* "none" on success.                                                      *)
(***************************************************************************)
Call(op, wid, aux, ok, pt) == [op |-> op, wid |-> wid, aux |-> aux, ok |-> ok, pt |-> pt]

\* macos.rs:207: for id in 0..100u64
ProbeLimit == 100
ProbeRange == 0 .. (ProbeLimit - 1)

LastProbe_oneMore == ProbeLimit

\* macos.rs:207: the last candidate index of `0..100`
LastProbe == ProbeLimit - 1

(***************************************************************************)
(* What a process answers to the probe of index i: a null pointer, an      *)
(* element whose window id cannot be read, or an element of a window (0 is *)
(* kCGNullWindowID), standard or not.  A table gives the answers of the    *)
(* first index, of the last index of the scan and of the first index       *)
(* beyond it; every other index answers `rest`.                            *)
(***************************************************************************)
ProbeSlots == {0, ProbeLimit - 1, ProbeLimit}

NullAnswer == [kind |-> "null", wid |-> 0, std |-> FALSE]
ErrAnswer == [kind |-> "err", wid |-> 0, std |-> FALSE]
ElemAnswers == [kind : {"elem"}, wid : Wids \cup {0}, std : BOOLEAN]
Answers == {NullAnswer, ErrAnswer} \cup ElemAnswers

AxTables == [slots : [ProbeSlots -> Answers], rest : {NullAnswer, ErrAnswer}]

\* the tables with one element, at one slot
OneElemTables ==
    {[slots |-> [i \in ProbeSlots |-> IF i = at THEN e ELSE r], rest |-> r] :
        at \in ProbeSlots, e \in ElemAnswers, r \in {NullAnswer, ErrAnswer}}

\* _AXUIElementCreateWithRemoteToken + _AXUIElementGetWindow for index i
AxAnswer(t, i) == IF i \in ProbeSlots THEN t.slots[i] ELSE t.rest

\* macos.rs:208-228: the body of the loop of focus_ax for candidate index id:
\* skip a null pointer and an element whose window id cannot be read, raise
\* the element of the window and return
FocusAxProbe(st, target, t, id) ==
    LET a == AxAnswer(t, id)
    IN  [probes |-> st.probes + 1, maxidx |-> id,
         raised |-> a.kind = "elem" /\ a.wid = target]

RECURSIVE focus_ax_scan_noStop(_, _, _, _, _)
focus_ax_scan_noStop(st, target, t, lo, hi) ==
    IF lo > hi \/ st.probes >= ProbeLimit THEN st
    ELSE IF lo = hi THEN FocusAxProbe(st, target, t, lo)
    ELSE focus_ax_scan_noStop(focus_ax_scan_noStop(st, target, t, lo, (lo + hi) \div 2),
                              target, t, (lo + hi) \div 2 + 1, hi)

\* macos.rs:207-229: the loop of focus_ax over the candidate indices lo..hi,
\* in increasing order, left at the first raise.  The range is walked by
\* halves, first half first, which keeps the evaluation shallow.
RECURSIVE focus_ax_scan(_, _, _, _, _)
focus_ax_scan(st, target, t, lo, hi) ==
    IF lo > hi \/ st.raised THEN st
    ELSE IF lo = hi THEN FocusAxProbe(st, target, t, lo)
    ELSE focus_ax_scan(focus_ax_scan(st, target, t, lo, (lo + hi) \div 2),
                       target, t, (lo + hi) \div 2 + 1, hi)

\* macos.rs:198-231: the scan of Window::focus_ax: the number of control
\* objects requested, the highest index asked for, whether AXRaise was done
focus_ax_from(target, t) ==
    focus_ax_scan([probes |-> 0, maxidx |-> -1, raised |-> FALSE],
                  target, t, 0, LastProbe)

\* the Handle Resolver's step for candidate index id: an element of a window
\* still unresolved, and a standard window, is recorded and its id leaves
\* the remaining set
ResolveProbe(st, t, id) ==
    LET a == AxAnswer(t, id)
    IN  IF a.kind = "elem" /\ a.wid \in st.rem /\ a.std
        THEN [probes |-> st.probes + 1, maxidx |-> id,
              rem |-> st.rem \ {a.wid}, found |-> Put(st.found, a.wid, id)]
        ELSE [st EXCEPT !.probes = @ + 1, !.maxidx = id]

\* the Handle Resolver's loop over the candidate indices lo..hi, in
\* increasing order, left once nothing remains unresolved; walked by halves
RECURSIVE resolve_scan(_, _, _, _)
resolve_scan(st, t, lo, hi) ==
    IF lo > hi \/ st.rem = {} THEN st
    ELSE IF lo = hi THEN ResolveProbe(st, t, lo)
    ELSE resolve_scan(resolve_scan(st, t, lo, (lo + hi) \div 2),
                      t, (lo + hi) \div 2 + 1, hi)

\* the Handle Resolver on one process: the windows to resolve, the answers
\* of the process; found maps each resolved window to the index of its element
resolve_ax_probe(pid, wids, t) ==
    resolve_scan([probes |-> 0, maxidx |-> -1, rem |-> wids, found |-> EmptyMap],
                 t, 0, LastProbe)

\* macos.rs:198-231: Window::focus_ax, as the calls it makes
focus_ax(w, pid, e) ==
    LET r == focus_ax_from(w.id, e.table)
    IN  <<Call("AXCreateWithRemoteToken", 0, r.probes, TRUE, <<>>)>>
        \o (IF r.raised
            THEN <<Call("AXRaise", w.id, 0, e.raise, <<>>)>> ELSE <<>>)

\* the first four bytes of id.to_ne_bytes(): the low 32 bits of the id, least
\* significant byte first (every target of the program is little-endian)
IdBytes(id) == [k \in 1..4 |-> (id \div (256 ^ (k - 1))) % 256]

\* macos.rs:169-172, 181: the zeroed record with its fixed bytes; index o + 1
\* holds the byte at offset o
RecordBase ==
    [o \in 1..248 |->
        CASE o = 5 -> 248
          [] o \in 33..48 -> 255
          [] o = 59 -> 16
          [] OTHER -> 0]

EventRecord_bigEndian(id, flavor) ==
    [RecordBase EXCEPT ![61] = IdBytes(id)[4], ![62] = IdBytes(id)[3],
                       ![63] = IdBytes(id)[2], ![64] = IdBytes(id)[1],
                       ![9] = flavor]

\* macos.rs:174-182, 189: the record as posted: the window id at 0x3c..0x3f
\* and the flavor at 0x08
EventRecord(id, flavor) ==
    [RecordBase EXCEPT ![61] = IdBytes(id)[1], ![62] = IdBytes(id)[2],
                       ![63] = IdBytes(id)[3], ![64] = IdBytes(id)[4],
                       ![9] = flavor]

\* macos.rs:184, 191: SLPSPostEventRecordTo(psn, bytes)
Post(wid, flavor, ok) ==
    LET bytes == EventRecord(wid, flavor)
    IN  [op |-> "PostEventRecord", wid |-> wid, aux |-> bytes[9],
         ok |-> ok, pt |-> <<>>, rec |-> bytes]

make_key_window_upFirst(wid, e) ==
    LET up == Post(wid, 2, e.fail # "up")
        down == Post(wid, 1, e.fail # "down")
    IN  IF ~up.ok THEN [ok |-> FALSE, calls |-> <<up>>]
        ELSE [ok |-> down.ok, calls |-> <<up, down>>]

make_key_window_ignoreDown(wid, e) ==
    LET down == Post(wid, 1, e.fail # "down")
        up == Post(wid, 2, e.fail # "up")
    IN  [ok |-> up.ok, calls |-> <<down, up>>]

\* macos.rs:168-195: Window::make_key_window: post the record with the down
\* flavor, then with the up flavor, checking each result
make_key_window(wid, e) ==
    LET down == Post(wid, 1, e.fail # "down")
        up == Post(wid, 2, e.fail # "up")
    IN  IF ~down.ok THEN [ok |-> FALSE, calls |-> <<down>>]
        ELSE [ok |-> up.ok, calls |-> <<down, up>>]

\* macos.rs:159-162, windows.rs:165-168: the centre of a rectangle
Center(r) == <<r.x + r.w \div 2, r.y + r.h \div 2>>

\* the rectangles of the model; even sizes, so that halving is exact
Rects == [x : {0, 10}, y : {0}, w : {4}, h : {2, 6}]

Activation_swapped(w, pid, e) ==
    <<Call("SLSGetActiveSpace", 0, e.active, TRUE, <<>>)>>
    \o (IF w.space.id # e.active
        THEN <<Call("Activate", 0, 0, TRUE, <<>>)>>
        ELSE focus_ax(w, pid, e))

\* macos.rs:153-157: activate on the active space, scan and raise otherwise
Activation(w, pid, e) ==
    <<Call("SLSGetActiveSpace", 0, e.active, TRUE, <<>>)>>
    \o (IF w.space.id = e.active
        THEN <<Call("Activate", 0, 0, TRUE, <<>>)>>
        ELSE focus_ax(w, pid, e))

\* macos.rs:153-165: steps 4 and 5 of the simple variant
SimpleFinish(w, pid, e, calls) ==
    [ok |-> TRUE, err |-> "none",
     calls |-> calls \o Activation(w, pid, e)
                     \o <<Call("Warp", 0, 0, TRUE, Center(w.bounds))>>]

\* macos.rs:148-151
SimpleKeyWindow(w, pid, e, calls) ==
    LET k == make_key_window(w.id, e)
    IN  IF ~k.ok THEN [ok |-> FALSE, err |-> "key", calls |-> calls \o k.calls]
        ELSE SimpleFinish(w, pid, e, calls \o k.calls)

SimpleSetFront_unchecked(w, pid, e, calls) ==
    SimpleKeyWindow(w, pid, e,
        Append(calls, Call("SetFrontProcess", w.id, 0, e.fail # "sfp", <<>>)))

\* macos.rs:143-146
SimpleSetFront(w, pid, e, calls) ==
    LET c == Call("SetFrontProcess", w.id, 0, e.fail # "sfp", <<>>)
    IN  IF ~c.ok THEN [ok |-> FALSE, err |-> "front", calls |-> Append(calls, c)]
        ELSE SimpleKeyWindow(w, pid, e, Append(calls, c))

\* macos.rs:132-166: Window::focus of the simple variant
FocusMacos(w, pid, e) ==
    LET c == Call("GetProcessForPID", 0, pid, e.fail # "psn", <<>>)
    IN  IF ~c.ok THEN [ok |-> FALSE, err |-> "psn", calls |-> <<c>>]
        ELSE SimpleSetFront(w, pid, e, <<c>>)

CachedFinish_warpAnyway(w, pid, e, calls) ==
    LET raise == Call("AXRaise", w.id, 0, e.raise, <<>>)
        bounds == Call("SLSGetWindowBounds", w.id, 0, e.bounds, <<>>)
    IN  [ok |-> TRUE, err |-> "none",
         calls |-> calls \o <<raise, bounds,
                              Call("Warp", 0, 0, TRUE, Center(e.rect))>>]

\* windows.rs:151-171: raise the cached element, ask the window server for
\* the bounds, warp the pointer
CachedFinish(w, pid, e, calls) ==
    LET raise == Call("AXRaise", w.id, 0, e.raise, <<>>)
        bounds == Call("SLSGetWindowBounds", w.id, 0, e.bounds, <<>>)
    IN  IF ~bounds.ok
        THEN [ok |-> FALSE, err |-> "bounds", calls |-> calls \o <<raise, bounds>>]
        ELSE [ok |-> TRUE, err |-> "none",
              calls |-> calls \o <<raise, bounds,
                                   Call("Warp", 0, 0, TRUE, Center(e.rect))>>]

\* windows.rs:146-149
CachedKeyWindow(w, pid, e, calls) ==
    LET k == make_key_window(w.id, e)
    IN  IF ~k.ok THEN [ok |-> FALSE, err |-> "key", calls |-> calls \o k.calls]
        ELSE CachedFinish(w, pid, e, calls \o k.calls)

\* windows.rs:141-144
CachedSetFront(w, pid, e, calls) ==
    LET c == Call("SetFrontProcess", w.id, 0, e.fail # "sfp", <<>>)
    IN  IF ~c.ok THEN [ok |-> FALSE, err |-> "front", calls |-> Append(calls, c)]
        ELSE CachedKeyWindow(w, pid, e, Append(calls, c))

FocusWindows_ignorePsn(w, pid, e) ==
    CachedSetFront(w, pid, e,
        <<Call("GetProcessForPID", 0, pid, e.fail # "psn", <<>>)>>)

\* windows.rs:130-172: Window::focus of the caching variant
FocusWindows(w, pid, e) ==
    LET c == Call("GetProcessForPID", 0, pid, e.fail # "psn", <<>>)
    IN  IF ~c.ok THEN [ok |-> FALSE, err |-> "psn", calls |-> <<c>>]
        ELSE CachedSetFront(w, pid, e, <<c>>)

\* the first step of steps 1-3 that the OS refuses, if any
FocusFailures == {"none", "psn", "sfp", "down", "up"}

\* the window ids focus is called with: the small ones and one whose low
\* four bytes all differ (0x01020304)
FocusWids == Wids \cup {16909060}

\* macos.rs:103-109: a Window of the simple variant (title left out).  Its id
\* is a window number of the window server, a CGWindowID, which the casts
\* `self.id as u32` of macos.rs:143 and 223 leave as it is.
SimpleWindows == [id : FocusWids, bounds : Rects, space : [id : SpaceIds]]

\* windows.rs:123-127: a Window of the caching variant (title left out)
CachedWindows == [id : FocusWids, ax_element : AxHandles]

\* what the OS answers during one focus call of the simple variant
SimpleEnvs == [fail : FocusFailures, active : SpaceIds, table : OneElemTables,
               raise : BOOLEAN]

\* what the OS answers during one focus call of the caching variant, and the
\* space the window is on (which this variant never asks for)
CachedEnvs == [fail : FocusFailures, active : SpaceIds, space : SpaceIds,
               raise : BOOLEAN, bounds : BOOLEAN, rect : Rects]

NoResult == [ok |-> FALSE, err |-> "none", calls |-> <<>>]

FocusInputs ==
    [phase : {"call"}, variant : {"macos"}, win : SimpleWindows, pid : Pids,
     env : SimpleEnvs, res : {NoResult}]
    \cup
    [phase : {"call"}, variant : {"windows"}, win : CachedWindows, pid : Pids,
     env : CachedEnvs, res : {NoResult}]

FocusIdle == [phase |-> "idle"]

\* one scan: of focus_ax for a window, or of the Resolver for the unresolved
\* windows of a process
ResolverInputs ==
    [phase : {"call"}, kind : {"focus_ax"}, pid : Pids, wids : {{w} : w \in Wids},
     table : AxTables, res : {NoResult}]
    \cup
    [phase : {"call"}, kind : {"resolve"}, pid : Pids,
     wids : (SUBSET Wids) \ {{}}, table : AxTables, res : {NoResult}]

ResolverIdle == [phase |-> "idle"]

(***************************************************************************)
(* Enumeration of the simple variant: get_open_app_windows reads the       *)
(* running applications, the managed display spaces with the windows of    *)
(* each space, and the window list.  A snapshot holds what these queries   *)
(* answer:                                                                 *)
(*   apps     : the kind of each process                                   *)
(*   catalog  : [null, displays], displays a sequence of [uuid, spaces],   *)
(*              spaces a sequence of [id, type, null, wins]; null says     *)
(*              that the query returned a null pointer                     *)
(*   list     : [none, entries], entries a sequence of                     *)
(*              [layer, pid, number, bounds, rect]; bounds says whether    *)
(*              the bounds dictionary of the entry represents a rectangle  *)
(*              ("rect"), does not ("malformed") or is not there at all    *)
(*              ("missing")                                                *)
(* Every other key the code reads is there in every dictionary.            *)
(***************************************************************************)
EnumWids == 1..MaxEnumWid

\* Option<u8>
None == [some |-> FALSE, val |-> 0]
Some(v) == [some |-> TRUE, val |-> v]

\* the space types: 0 is a user space, 4 a fullscreen space
SpaceTypes == {0, 4}

\* the sequences of space types of one display, of at most n spaces
TypeSeqs(n) == UNION {[1..k -> SpaceTypes] : k \in 1..n}

\* the sequences of displays that hold at most n spaces together
RECURSIVE DisplaySeqs(_)
DisplaySeqs(n) ==
    {<<>>} \cup UNION {{<<d>> \o r : r \in DisplaySeqs(n - Len(d))} : d \in TypeSeqs(n)}

\* the id64 of the k-th space of a snapshot
SpaceIdAt(k) == 10 * k

\* the displays of a snapshot: layout ds, window w listed by the spaces at the
\* positions place[w], the window query of the last space answering null if nl
RECURSIVE DisplaysOf(_, _, _, _, _)
DisplaysOf(ds, place, nl, i, before) ==
    IF ds = <<>> THEN <<>>
    ELSE <<[uuid |-> i,
            spaces |-> [j \in 1..Len(Head(ds)) |->
                [id |-> SpaceIdAt(before + j),
                 type |-> Head(ds)[j],
                 null |-> nl /\ Tail(ds) = <<>> /\ j = Len(Head(ds)),
                 wins |-> {w \in EnumWids : (before + j) \in place[w]}]]]>>
         \o DisplaysOf(Tail(ds), place, nl, i + 1, before + Len(Head(ds)))

\* every window on no space or on one; every window on any set of spaces
SinglePlaces == [EnumWids -> {{}} \cup {{k} : k \in 1..MaxEnumSpace}]
MultiPlaces == [EnumWids -> SUBSET (1..MaxEnumSpace)]

\* the layouts whose spaces are all user spaces
UserLayouts ==
    {ds \in DisplaySeqs(MaxEnumSpace) :
        \A i \in DOMAIN ds : \A j \in DOMAIN ds[i] : ds[i][j] = 0}

CatalogsOf(layouts, places, nulls) ==
    {[null |-> FALSE, displays |-> DisplaysOf(ds, place, nl, 1, 0)] :
        ds \in layouts, place \in places, nl \in nulls}

\* the catalogs whose queries all answer, a window on one space at most
PlainCatalogs == CatalogsOf(DisplaySeqs(MaxEnumSpace), SinglePlaces, {FALSE})

\* the catalogs one of whose queries answers with a null pointer
NullCatalogs ==
    {[null |-> TRUE, displays |-> <<>>]}
    \cup (CatalogsOf(DisplaySeqs(MaxEnumSpace), SinglePlaces, {TRUE}) \ PlainCatalogs)

\* the catalogs in which a window may be listed by several spaces
SharedCatalogs == CatalogsOf(DisplaySeqs(MaxEnumSpace), MultiPlaces, {FALSE})

\* the catalogs of user spaces only
UserCatalogs == CatalogsOf(UserLayouts, SinglePlaces, {FALSE})

Catalogs == PlainCatalogs \cup NullCatalogs

\* the bounds of the windows of a snapshot
EnumRect == [x |-> 0, y |-> 0, w |-> 4, h |-> 2]

BoundsKinds == {"rect", "malformed", "missing"}

Entries == [layer : {0, 1}, pid : Pids, number : EnumWids, bounds : BoundsKinds,
            rect : {EnumRect}]

\* the window lists: at most one entry per window, by increasing number
RECURSIVE EntrySeqs(_)
EntrySeqs(w) ==
    IF w > MaxEnumWid THEN {<<>>}
    ELSE LET rest == EntrySeqs(w + 1)
         IN  rest \cup {<<e>> \o r : e \in {x \in Entries : x.number = w}, r \in rest}

WindowLists ==
    {[none |-> TRUE, entries |-> <<>>]}
    \cup {[none |-> FALSE, entries |-> es] : es \in EntrySeqs(1)}

\* the window lists with one entry per window, of layer 0 and with bounds,
\* whoever owns it
FullLists ==
    {[none |-> FALSE,
      entries |-> [w \in EnumWids |->
                      [layer |-> 0, pid |-> owner[w], number |-> w,
                       bounds |-> "rect", rect |-> EnumRect]]] :
        owner \in [EnumWids -> Pids]}

\* the window lists of up to MaxEnumEntries entries of layer 0, in any order,
\* where several entries may carry the same window number
MaxEnumEntries == 2

RepeatEntries == {e \in Entries : e.layer = 0 /\ e.bounds # "missing"}

RepeatLists ==
    {[none |-> FALSE, entries |-> es] :
        es \in UNION {[1..n -> RepeatEntries] : n \in 1..MaxEnumEntries}}

EnumApps == [Pids -> {"regular", "accessory", "terminated"}]

Snapshots ==
    [apps : EnumApps, catalog : PlainCatalogs, list : WindowLists]
    \cup [apps : EnumApps, catalog : NullCatalogs,
          list : {[none |-> FALSE, entries |-> <<>>]}]
    \cup [apps : EnumApps, catalog : SharedCatalogs, list : FullLists]
    \cup [apps : EnumApps, catalog : UserCatalogs, list : RepeatLists]

\* what dereferencing a null pointer behind NonNull::new_unchecked comes to:
\* the abort of a checked build, the fault of an unchecked one
UbOutcomes == {"abort", "fault"}

\* macos.rs:354-380: the regular, not terminated applications
get_apps(apps) ==
    [p \in {q \in Pids : IsRunning(apps[q]) /\ IsRegular(apps[q])
                         /\ ~IsTerminated(apps[q])}
        |-> [pid |-> p, windows |-> <<>>]]

NextCnt_everySpace(cnt, type) == cnt + 1

\* macos.rs:261-263: `cnt += 1` for a space of type 0 only
NextCnt(cnt, type) == IF type = 0 THEN cnt + 1 ELSE cnt

VisibleInsert_keepFirst(visible, wins, space) ==
    [w \in (DOMAIN visible) \cup wins |->
        IF w \in DOMAIN visible THEN visible[w] ELSE space]

\* macos.rs:290-300: visible.insert(w_id, Space {..}) for every window of the
\* space; an insert replaces what the map held for the window
VisibleInsert(visible, wins, space) ==
    [w \in (DOMAIN visible) \cup wins |->
        IF w \in wins THEN space ELSE visible[w]]

\* macos.rs:253-301: the spaces of display i, from the j-th on; indices keeps
\* the `index` computed for each space, in the order of the loop
RECURSIVE CatalogSpaces(_, _, _, _, _)
CatalogSpaces(st, i, d, j, ub) ==
    IF j > Len(d.spaces) \/ st.status # "ok" THEN st
    ELSE LET sp == d.spaces[j]
             cnt == NextCnt(st.cnt, sp.type)
             index == IF sp.type = 0 THEN Some(cnt) ELSE None
             space == [display |-> i, display_uuid |-> d.uuid,
                       index |-> index, id |-> sp.id]
         IN  IF sp.null
             THEN [st EXCEPT !.status = ub, !.cnt = cnt,
                             !.indices = Append(@, index)]
             ELSE CatalogSpaces(
                     [st EXCEPT !.cnt = cnt,
                                !.indices = Append(@, index),
                                !.visible = VisibleInsert(@, sp.wins, space)],
                     i, d, j + 1, ub)

\* macos.rs:246-302: the displays, from the i-th on
RECURSIVE CatalogDisplays(_, _, _, _)
CatalogDisplays(st, displays, i, ub) ==
    IF i > Len(displays) \/ st.status # "ok" THEN st
    ELSE CatalogDisplays(CatalogSpaces(st, i, displays[i], 1, ub), displays, i + 1, ub)

\* macos.rs:237-302: the Space catalog `visible`: window id -> Space
BuildCatalog(catalog, ub) ==
    IF catalog.null
    THEN [status |-> ub, cnt |-> 0, visible |-> EmptyMap, indices |-> <<>>]
    ELSE CatalogDisplays([status |-> "ok", cnt |-> 0, visible |-> EmptyMap,
                          indices |-> <<>>],
                         catalog.displays, 1, ub)

Skipped_layerInverted(e, st) ==
    e.layer = 0 \/ e.pid \notin DOMAIN st.apps \/ e.number \notin DOMAIN st.visible

Skipped_ignoreLayer(e, st) ==
    e.pid \notin DOMAIN st.apps \/ e.number \notin DOMAIN st.visible

\* macos.rs:324-326: the entries the window loop passes over
Skipped(e, st) ==
    e.layer # 0 \/ e.pid \notin DOMAIN st.apps \/ e.number \notin DOMAIN st.visible

RECURSIVE WindowLoop_keepSpace(_, _, _)
WindowLoop_keepSpace(st, entries, i) ==
    IF i > Len(entries) \/ st.status # "ok" THEN st
    ELSE LET e == entries[i]
         IN  IF Skipped(e, st) THEN WindowLoop_keepSpace(st, entries, i + 1)
             ELSE IF e.bounds = "missing" THEN [st EXCEPT !.status = "panic"]
             ELSE IF e.bounds = "malformed" THEN [st EXCEPT !.status = "err"]
             ELSE WindowLoop_keepSpace(
                     [st EXCEPT
                         !.apps[e.pid].windows =
                             Append(@, [id |-> e.number, bounds |-> e.rect,
                                        space |-> st.visible[e.number]])],
                     entries, i + 1)

\* macos.rs:310-349: the window loop, from the i-th entry on
RECURSIVE WindowLoop(_, _, _)
WindowLoop(st, entries, i) ==
    IF i > Len(entries) \/ st.status # "ok" THEN st
    ELSE LET e == entries[i]
         IN  IF Skipped(e, st) THEN WindowLoop(st, entries, i + 1)
             ELSE IF e.bounds = "missing" THEN [st EXCEPT !.status = "panic"]
             ELSE IF e.bounds = "malformed" THEN [st EXCEPT !.status = "err"]
             ELSE WindowLoop(
                     [st EXCEPT
                         !.apps[e.pid].windows =
                             Append(@, [id |-> e.number, bounds |-> e.rect,
                                        space |-> st.visible[e.number]]),
                         !.visible = Drop(@, e.number)],
                     entries, i + 1)

\* macos.rs:234-352: get_open_app_windows: status "ok" with the app map, or
\* "err", or "panic" (get_value_unchecked on a key that is not there), or
\* the outcome of a null pointer; catalog is the Space catalog as
\* built before the window loop, indices the ordinals given to the spaces
get_open_app_windows(snap, ub) ==
    LET c == BuildCatalog(snap.catalog, ub)
    IN  IF c.status # "ok"
        THEN [status |-> c.status, apps |-> EmptyMap, catalog |-> EmptyMap,
              indices |-> c.indices]
        ELSE IF snap.list.none
        THEN [status |-> "err", apps |-> EmptyMap, catalog |-> c.visible,
              indices |-> c.indices]
        ELSE LET r == WindowLoop([status |-> "ok", apps |-> get_apps(snap.apps),
                                  visible |-> c.visible],
                                 snap.list.entries, 1)
             IN  [status |-> r.status,
                  apps |-> IF r.status = "ok" THEN r.apps ELSE EmptyMap,
                  catalog |-> c.visible, indices |-> c.indices]

EnumInputs == [phase : {"call"}, snap : Snapshots, res : {NoResult}]

EnumIdle == [phase |-> "idle"]

(***************************************************************************)
(* Icon normalisation: macos.rs ns_image_to_color                          *)
(***************************************************************************)
MaxIconPixels == 2

\* width and height of the sampled bitmaps
IconDims ==
    {d \in (1..MaxIconPixels) \X (1..MaxIconPixels) : d[1] * d[2] <= MaxIconPixels}

\* sample pixels per depth, as the bytes of the data provider.  32-bit
\* samples are opaque or fully transparent; the 64-bit samples hold the
\* halves 1.0, 0.5, 2.0, -1.0, 0.0 and +infinity, low byte first
IconDepths == {8, 24, 32, 64}
PixelsOf(bpp) ==
    CASE bpp = 24 -> {<<255, 0, 0>>, <<1, 2, 3>>, <<0, 0, 0>>}
      [] bpp = 32 -> {<<255, 0, 0, 255>>, <<1, 2, 3, 255>>, <<9, 8, 7, 0>>,
                      <<0, 0, 0, 0>>}
      [] bpp = 64 -> {<<0, 60, 0, 56, 0, 64, 0, 60>>,
                      <<0, 188, 0, 0, 0, 124, 255, 59>>}
      [] OTHER    -> {<<5>>}

\* a rasterised icon: size, depth, padding bytes at the end of each row, the
\* pixels in row order, and whether the data provider hands out its bytes
Images ==
    UNION {[w : {d[1]}, h : {d[2]}, bpp : {b}, pad : {0, 1},
            px : [1..(d[1] * d[2]) -> PixelsOf(b)], data : BOOLEAN] :
               d \in IconDims, b \in IconDepths}

RECURSIVE Concat(_)
Concat(seqs) == IF seqs = <<>> THEN <<>> ELSE Head(seqs) \o Concat(Tail(seqs))

\* macos.rs:402: CGImage::bytes_per_row
BytesPerRow(img) == img.w * (img.bpp \div 8) + img.pad

\* macos.rs:407-409: data.to_vec(), the rows one after the other
RawData(img) ==
    Concat([y \in 1..img.h |->
              Concat([x \in 1..img.w |-> img.px[(y - 1) * img.w + x]])
              \o [k \in 1..img.pad |-> 0]])

\* ColorImage: the size and the pixels, four bytes each
ColorImage(img, bytes) == [status |-> "some", size |-> <<img.w, img.h>>, bytes |-> bytes]

\* the assert_eq! on the length of the data in ColorImage::from_rgb and
\* from_rgba_*
SizeChecked(img, data, k, bytes) ==
    IF Len(data) = img.w * img.h * k THEN ColorImage(img, bytes)
    ELSE [status |-> "panic"]

\* Color32::from_rgba_unmultiplied: the colour premultiplied by alpha, which
\* leaves an opaque pixel as it is and makes a fully transparent one zero
Premultiplied(r, g, b, a) ==
    CASE a = 255 -> <<r, g, b, 255>>
      [] a = 0   -> <<0, 0, 0, 0>>

\* macos.rs:413: ColorImage::from_rgb
from_rgb(img, data) ==
    SizeChecked(img, data, 3,
        Concat([k \in 1..(Len(data) \div 3) |->
                  <<data[3 * k - 2], data[3 * k - 1], data[3 * k], 255>>]))

\* macos.rs:414-417: ColorImage::from_rgba_unmultiplied
from_rgba_unmultiplied(img, data) ==
    SizeChecked(img, data, 4,
        Concat([k \in 1..(Len(data) \div 4) |->
                  Premultiplied(data[4 * k - 3], data[4 * k - 2],
                                data[4 * k - 1], data[4 * k])]))

\* macos.rs:423-437: half::f16::from_le_bytes(..).to_f32().clamp(0.0, 1.0)
\* * 255.0, as u8
HalfToByte(lo, hi) ==
    LET bits == lo + 256 * hi
        neg  == bits \div 32768 = 1
        exp  == (bits \div 1024) % 32
        mant == bits % 1024
    IN  IF exp = 31 THEN (IF mant = 0 /\ ~neg THEN 255 ELSE 0)
        ELSE IF neg THEN 0
        ELSE IF exp >= 15 THEN 255
        ELSE IF exp = 0 THEN 0
        ELSE ((1024 + mant) * 255) \div (2 ^ (25 - exp))

\* macos.rs:419-439: the pixels of a 64-bit bitmap that lie within the data
HalfPixels(img, data) ==
    Concat([i \in 1..(img.w * img.h) |->
              LET y == (i - 1) \div img.w
                  x == (i - 1) % img.w
                  offset == y * BytesPerRow(img) + x * 8
              IN  IF offset + 7 < Len(data)
                  THEN [c \in 1..4 |-> HalfToByte(data[offset + 2 * c - 1],
                                                  data[offset + 2 * c])]
                  ELSE <<>>])

\* macos.rs:396-444: ns_image_to_color
ns_image_to_color(img) ==
    IF ~img.data THEN [status |-> "none"]
    ELSE LET raw_data == RawData(img)
         IN  CASE img.bpp = 24 -> from_rgb(img, raw_data)
               [] img.bpp = 32 -> from_rgba_unmultiplied(img, raw_data)
               [] img.bpp = 64 ->
                    LET rgba == HalfPixels(img, raw_data)
                    IN  SizeChecked(img, rgba, 4, rgba)
               [] OTHER -> [status |-> "none"]

IconInputs == [phase : {"call"}, img : Images, res : {NoResult}]

IconIdle == [phase |-> "idle"]

PickerIdle == [phase |-> "idle"]

(***************************************************************************)
(* The manager under a changing OS.                                        *)
(***************************************************************************)
Init ==
    /\ os \in OsStates
    /\ \E q \in QueryOutcomes :
          /\ mgr = Boot(os, q)
          /\ last = [op |-> "refresh", ok |-> (q = "ok"), again |-> FALSE]
    /\ foc = FocusIdle
    /\ rs = ResolverIdle
    /\ en = EnumIdle
    /\ ic = IconIdle
    /\ pk = PickerIdle

\* the life of a process: it is launched (with or without an icon that can
\* be normalized, as a regular or an accessory app), changes its activation
\* policy, terminates, and at last leaves the list of running applications
AppMoves(k) ==
    CASE k = "absent"     -> {"regular", "noicon", "accessory"}
      [] k = "regular"    -> {"accessory", "terminated"}
      [] k = "noicon"     -> {"accessory", "terminated"}
      [] k = "accessory"  -> {"regular", "terminated"}
      [] k = "terminated" -> {"absent"}

OsAppChange ==
    \E p \in Pids :
       \E k \in AppMoves(os.apps[p]) :
          /\ os' = [os EXCEPT !.apps[p] = k]
          /\ last' = [op |-> "os", ok |-> TRUE, again |-> FALSE]
          /\ UNCHANGED <<mgr, foc, rs, en, ic, pk>>

\* a window opens (owned by some process), closes, or its accessibility
\* element comes or goes
OsWindowChange ==
    \E w \in Wids :
       /\ IF w \in DOMAIN os.wins
          THEN \/ os' = [os EXCEPT !.wins = Drop(@, w)]
               \/ \E h \in (AxHandles \cup {"none"}) \ {os.wins[w].ax} :
                     os' = [os EXCEPT !.wins[w].ax = h]
          ELSE \E s \in WinStates : os' = [os EXCEPT !.wins = Put(@, w, s)]
       /\ last' = [op |-> "os", ok |-> TRUE, again |-> FALSE]
       /\ UNCHANGED <<mgr, foc, rs, en, ic, pk>>

\* ui.rs:62: state.manager.refresh()
RefreshStep ==
    \E q \in QueryOutcomes :
       LET r == Refresh(mgr, os, q)
       IN  /\ mgr' = r.mgr
           /\ last' = [op |-> "refresh", ok |-> r.ok,
                       again |-> (r.ok /\ last.op = "refresh" /\ last.ok)]
           /\ UNCHANGED <<os, foc, rs, en, ic, pk>>

Next == OsAppChange \/ OsWindowChange \/ RefreshStep

Spec == Init /\ [][Next]_vars

(***************************************************************************)
(* One focus call, of either variant, on any window and any OS answers.    *)
(***************************************************************************)
\* the manager at rest: nothing running, nothing cached
MgrIdle ==
    /\ os = [apps |-> [p \in Pids |-> "absent"], wins |-> EmptyMap]
    /\ mgr = DefaultManager
    /\ last = [op |-> "os", ok |-> TRUE, again |-> FALSE]

FocusInit ==
    /\ foc \in FocusInputs
    /\ rs = ResolverIdle
    /\ en = EnumIdle
    /\ ic = IconIdle
    /\ pk = PickerIdle
    /\ MgrIdle

\* app.rs:145: window.focus(&app.app)
FocusSimple ==
    /\ foc.phase = "call" /\ foc.variant = "macos"
    /\ foc' = [foc EXCEPT !.phase = "done",
                           !.res = FocusMacos(foc.win, foc.pid, foc.env)]
    /\ UNCHANGED <<mvars, rs, en, ic, pk>>

\* ui.rs:137: window.focus(&app.app)
FocusCached ==
    /\ foc.phase = "call" /\ foc.variant = "windows"
    /\ foc' = [foc EXCEPT !.phase = "done",
                           !.res = FocusWindows(foc.win, foc.pid, foc.env)]
    /\ UNCHANGED <<mvars, rs, en, ic, pk>>

FocusNext == FocusSimple \/ FocusCached

FocusSpec == FocusInit /\ [][FocusNext]_vars

(***************************************************************************)
(* One scan of the control objects of a process.                           *)
(***************************************************************************)
ResolverInit ==
    /\ rs \in ResolverInputs
    /\ foc = FocusIdle
    /\ en = EnumIdle
    /\ ic = IconIdle
    /\ pk = PickerIdle
    /\ MgrIdle

\* macos.rs:156: self.focus_ax(pid), the scan alone
ScanFocusAx ==
    /\ rs.phase = "call" /\ rs.kind = "focus_ax"
    /\ rs' = [rs EXCEPT !.phase = "done",
                         !.res = focus_ax_from(CHOOSE w \in rs.wids : TRUE, rs.table)]
    /\ UNCHANGED <<mvars, foc, en, ic, pk>>

\* windows.rs:72-75: macos::resolve_ax_for_pid(*pid, wids)
ScanResolve ==
    /\ rs.phase = "call" /\ rs.kind = "resolve"
    /\ rs' = [rs EXCEPT !.phase = "done",
                         !.res = resolve_ax_probe(rs.pid, rs.wids, rs.table)]
    /\ UNCHANGED <<mvars, foc, en, ic, pk>>

ResolverNext == ScanFocusAx \/ ScanResolve

ResolverSpec == ResolverInit /\ [][ResolverNext]_vars

(***************************************************************************)
(* One enumeration of the simple variant, on any snapshot.                 *)
(***************************************************************************)
EnumInit ==
    /\ en \in EnumInputs
    /\ ic = IconIdle
    /\ pk = PickerIdle
    /\ foc = FocusIdle
    /\ rs = ResolverIdle
    /\ MgrIdle

\* main.rs:42: macos::get_open_app_windows()
Enumerate ==
    /\ en.phase = "call"
    /\ \E ub \in UbOutcomes :
          en' = [en EXCEPT !.phase = "done",
                           !.res = get_open_app_windows(en.snap, ub)]
    /\ UNCHANGED <<mvars, foc, rs, ic, pk>>

EnumNext == Enumerate

EnumSpec == EnumInit /\ [][EnumNext]_vars

(***************************************************************************)
(* One icon normalisation, on any sampled bitmap.                          *)
(***************************************************************************)
IconInit ==
    /\ ic \in IconInputs
    /\ foc = FocusIdle
    /\ rs = ResolverIdle
    /\ en = EnumIdle
    /\ pk = PickerIdle
    /\ MgrIdle

\* macos.rs:375: app.icon().and_then(|icon| ns_image_to_color(&icon))
Normalize ==
    /\ ic.phase = "call"
    /\ ic' = [ic EXCEPT !.phase = "done", !.res = ns_image_to_color(ic.img)]
    /\ UNCHANGED <<mvars, foc, rs, en, pk>>

IconNext == Normalize

IconSpec == IconInit /\ [][IconNext]_vars

(***************************************************************************)
(* The manager with its callers: refresh, the focus of a published window  *)
(* and the read accessors, over an OS whose resolver can answer with       *)
(* different elements at different times.  Here last is                    *)
(*    [op, ok, pre, log, val]                                              *)
(* pre : the manager before the step                                       *)
(* log : what a successful refresh asked of the OS (RefreshLog)            *)
(* val : what a read accessor returned                                     *)
(* The processes here are absent or regular applications, with or without  *)
(* a usable icon, and come and go freely.                                  *)
(***************************************************************************)
CacheWids == 1..MaxCacheWid

CacheHandles == {"ax1", "ax2"}

CacheWinStates == [pid : Pids, ax : CacheHandles \cup {"none"}]

CacheAppKinds == {"absent", "regular", "noicon"}

CacheOsStates ==
    {[apps |-> a, wins |-> ws] :
        a \in [Pids -> CacheAppKinds],
        ws \in UNION {[S -> CacheWinStates] : S \in SUBSET CacheWids}}

NoLog == [fetched |-> {}, resolver |-> <<>>]

\* windows.rs:93-95: Manager::app_map
app_map(m) == m.app_map

\* windows.rs:97-99: Manager::get_icon; an Option, as a set of at most one
get_icon(m, pid) == IF pid \in DOMAIN m.icon_cache THEN {m.icon_cache[pid]} ELSE {}

Confirm_forgetOnFailure(m, w, pid, e) ==
    LET r == FocusWindows(w, pid, e)
    IN  [mgr |-> IF r.ok THEN m ELSE [m EXCEPT !.ax_cache = Drop(@, w.id)],
         res |-> r]

\* ui.rs:132-146: Message::Confirm: focus a window taken from
\* state.manager.app_map(); the result is dropped, the manager only read
Confirm(m, w, pid, e) == [mgr |-> m, res |-> FocusWindows(w, pid, e)]

\* the OS answers to a focus made from the picker: the step refused, if any,
\* and whether the bounds are given
ConfirmEnvs ==
    {[fail |-> f, active |-> 1, space |-> 1, raise |-> TRUE, bounds |-> b,
      rect |-> [x |-> 0, y |-> 0, w |-> 4, h |-> 2]] :
        f \in FocusFailures, b \in BOOLEAN} \ 
    {[fail |-> f, active |-> 1, space |-> 1, raise |-> TRUE, bounds |-> FALSE,
      rect |-> [x |-> 0, y |-> 0, w |-> 4, h |-> 2]] :
        f \in FocusFailures \ {"none"}}

CacheInit ==
    /\ os \in CacheOsStates
    /\ \E q \in QueryOutcomes :
          /\ mgr = Boot(os, q)
          /\ last = [op |-> "refresh", ok |-> (q = "ok"), pre |-> DefaultManager,
                     log |-> IF q = "ok" THEN RefreshLog(DefaultManager, os)
                             ELSE NoLog,
                     val |-> {}]
    /\ foc = FocusIdle
    /\ rs = ResolverIdle
    /\ en = EnumIdle
    /\ ic = IconIdle
    /\ pk = PickerIdle

CacheOsAppChange ==
    /\ \E p \in Pids : \E k \in CacheAppKinds \ {os.apps[p]} :
          os' = [os EXCEPT !.apps[p] = k]
    /\ last' = [op |-> "os", ok |-> TRUE, pre |-> mgr, log |-> NoLog, val |-> {}]
    /\ UNCHANGED <<mgr, foc, rs, en, ic, pk>>

CacheOsWindowChange ==
    /\ \E w \in CacheWids :
          IF w \in DOMAIN os.wins
          THEN \/ os' = [os EXCEPT !.wins = Drop(@, w)]
               \/ \E h \in (CacheHandles \cup {"none"}) \ {os.wins[w].ax} :
                     os' = [os EXCEPT !.wins[w].ax = h]
          ELSE \E st \in CacheWinStates : os' = [os EXCEPT !.wins = Put(@, w, st)]
    /\ last' = [op |-> "os", ok |-> TRUE, pre |-> mgr, log |-> NoLog, val |-> {}]
    /\ UNCHANGED <<mgr, foc, rs, en, ic, pk>>

\* ui.rs:62-64: state.manager.refresh()
CacheRefresh ==
    /\ \E q \in QueryOutcomes :
          LET r == Refresh(mgr, os, q)
          IN  /\ mgr' = r.mgr
              /\ last' = [op |-> "refresh", ok |-> r.ok, pre |-> mgr,
                          log |-> IF r.ok THEN RefreshLog(mgr, os) ELSE NoLog,
                          val |-> {}]
    /\ UNCHANGED <<os, foc, rs, en, ic, pk>>

\* ui.rs:132-146: Message::Confirm on a window of the inventory
CacheConfirm ==
    /\ \E p \in DOMAIN app_map(mgr) :
          \E i \in DOMAIN app_map(mgr)[p].windows : \E e \in ConfirmEnvs :
              LET r == Confirm(mgr, app_map(mgr)[p].windows[i], p, e)
              IN  /\ mgr' = r.mgr
                  /\ last' = [op |-> "focus", ok |-> r.res.ok, pre |-> mgr,
                              log |-> NoLog, val |-> {}]
    /\ UNCHANGED <<os, foc, rs, en, ic, pk>>

\* ui.rs:185: state.manager.get_icon(*pid), while the list is drawn
CacheReadIcon ==
    /\ \E p \in Pids :
          last' = [op |-> "read", ok |-> TRUE, pre |-> mgr, log |-> NoLog,
                   val |-> get_icon(mgr, p)]
    /\ UNCHANGED <<os, mgr, foc, rs, en, ic, pk>>

CacheNext ==
    \/ CacheOsAppChange
    \/ CacheOsWindowChange
    \/ CacheRefresh
    \/ CacheConfirm
    \/ CacheReadIcon

CacheSpec == CacheInit /\ [][CacheNext]_vars

(***************************************************************************)
(* The picker (ui.rs): the Switcheroo state under the messages of update.  *)
(* Every refresh reads a snapshot the OS gives at that moment.             *)
(***************************************************************************)
PickWids == 1..MaxPickWid

\* window::Id values; an id is in use from window::open until its close
\* event has been delivered
PickerIds == 1..MaxPickerIds

\* the snapshots a refresh of the picker reads: running regular
\* applications, any set of windows of the first one, with or without handle
PickerOsStates ==
    {[apps |-> [p \in Pids |-> "regular"], wins |-> ws] :
        ws \in UNION {[S -> [pid : {1}, ax : {"ax1", "none"}]] :
                         S \in SUBSET PickWids}}

\* App::name and Window::title, as sequences of characters
AppName(p) == <<"a">>

Title(w) == [k \in 1..w |-> IF k % 2 = 1 THEN "x" ELSE "y"]

\* the search input's texts
Queries == {<<>>, <<"x">>, <<"y">>, <<"z">>}

\* ui.rs:334: format!("{} {}", app.name, win.title)
SearchText(p, w) == AppName(p) \o <<" ">> \o Title(w)

RECURSIVE IsSubsequence(_, _)
IsSubsequence(needle, hay) ==
    IF needle = <<>> THEN TRUE
    ELSE IF hay = <<>> THEN FALSE
    ELSE IF Head(needle) = Head(hay) THEN IsSubsequence(Tail(needle), Tail(hay))
    ELSE IsSubsequence(needle, Tail(hay))

\* ui.rs:337-338: matcher.fuzzy_indices(haystack, needle, ..) is Some
FuzzyMatch(needle, hay) == IsSubsequence(needle, hay)

\* ui.rs:346-350: the order of the list; the scores of the sampled matches
\* tie, so the order is by application name, then by window title
ItemBefore(x, y) ==
    \/ x.pid < y.pid
    \/ x.pid = y.pid /\ x.win.id <= y.win.id

RECURSIVE SortItems(_)
SortItems(S) ==
    IF S = {} THEN <<>>
    ELSE LET m == CHOOSE x \in S : \A y \in S : ItemBefore(x, y)
         IN  <<m>> \o SortItems(S \ {m})

\* ui.rs:317-353: get_filtered_items
get_filtered_items(st) ==
    LET apps == app_map(st.manager)
        all  == UNION {{[pid |-> p, win |-> apps[p].windows[i]] :
                           i \in DOMAIN apps[p].windows} : p \in DOMAIN apps}
    IN  SortItems({x \in all :
                      \/ st.query = <<>>
                      \/ FuzzyMatch(st.query, SearchText(x.pid, x.win.id))})

\* ui.rs:66-71, 103-108: filtered_count and the selection after a new list
Reselect(st) ==
    LET n == Len(get_filtered_items(st))
    IN  [st EXCEPT !.filtered_count = n,
                   !.selected = IF n > 0 THEN Some(0) ELSE None]

\* what a message does besides changing the state: whether refresh was
\* called, the window opened, the window whose close was asked for, and the
\* result of the focus call
NoEffect == [refreshed |-> FALSE, opened |-> None, closed |-> None,
             focus |-> "none"]

ShowPicker_reopen(st, o, q, id) ==
    LET r  == Refresh(st.manager, o, q)
        s1 == Reselect([st EXCEPT !.manager = r.mgr, !.query = <<>>])
    IN  [st |-> [s1 EXCEPT !.picker_window = Some(id)],
         eff |-> [NoEffect EXCEPT !.refreshed = TRUE, !.opened = Some(id)]]

\* ui.rs:55-90: Message::ShowPicker; o and q are the snapshot and the
\* outcome of the queries of the refresh, id the id window::open returns
ShowPicker(st, o, q, id) ==
    IF st.picker_window.some THEN [st |-> st, eff |-> NoEffect]
    ELSE LET r  == Refresh(st.manager, o, q)
             s1 == Reselect([st EXCEPT !.manager = r.mgr, !.query = <<>>])
         IN  [st |-> [s1 EXCEPT !.picker_window = Some(id)],
              eff |-> [NoEffect EXCEPT !.refreshed = TRUE, !.opened = Some(id)]]

\* ui.rs:91-100: Message::HidePicker
HidePicker(st) ==
    IF st.picker_window.some
    THEN [st |-> [st EXCEPT !.picker_window = None, !.query = <<>>,
                            !.selected = None],
          eff |-> [NoEffect EXCEPT !.closed = st.picker_window]]
    ELSE [st |-> st, eff |-> NoEffect]

\* ui.rs:101-110: Message::QueryChanged
QueryChanged(st, query) ==
    [st |-> Reselect([st EXCEPT !.query = query]), eff |-> NoEffect]

SelectNext_unbounded(st) ==
    IF st.filtered_count = 0 THEN [st |-> st, eff |-> NoEffect]
    ELSE [st |-> [st EXCEPT !.selected =
                     IF st.selected.some THEN Some(st.selected.val + 1)
                     ELSE Some(0)],
          eff |-> NoEffect]

\* ui.rs:111-120: Message::SelectNext
SelectNext(st) ==
    IF st.filtered_count = 0 THEN [st |-> st, eff |-> NoEffect]
    ELSE [st |-> [st EXCEPT !.selected =
                     IF st.selected.some
                     THEN Some(IF st.selected.val + 1 < st.filtered_count - 1
                               THEN st.selected.val + 1
                               ELSE st.filtered_count - 1)
                     ELSE Some(0)],
          eff |-> NoEffect]

\* ui.rs:121-131: Message::SelectPrev
SelectPrev(st) ==
    [st |-> [st EXCEPT !.selected =
                IF st.filtered_count = 0 THEN None
                ELSE IF st.selected.some /\ st.selected.val > 0
                     THEN Some(st.selected.val - 1)
                     ELSE Some(0)],
     eff |-> NoEffect]

ConfirmSelected_keepOpenOnError(st, e) ==
    LET items == get_filtered_items(st)
        focus == IF st.selected.some /\ st.selected.val + 1 \in DOMAIN items
                 THEN LET it == items[st.selected.val + 1]
                      IN  IF Confirm(st.manager, it.win, it.pid, e).res.ok
                          THEN "ok" ELSE "err"
                 ELSE "none"
    IN  IF st.picker_window.some /\ focus # "err"
        THEN [st |-> [st EXCEPT !.picker_window = None, !.query = <<>>,
                                !.selected = None],
              eff |-> [NoEffect EXCEPT !.closed = st.picker_window,
                                       !.focus = focus]]
        ELSE [st |-> st, eff |-> [NoEffect EXCEPT !.focus = focus]]

\* ui.rs:132-146: Message::Confirm; e is what the OS answers to the focus
ConfirmSelected(st, e) ==
    LET items == get_filtered_items(st)
        focus == IF st.selected.some /\ st.selected.val + 1 \in DOMAIN items
                 THEN LET it == items[st.selected.val + 1]
                      IN  IF Confirm(st.manager, it.win, it.pid, e).res.ok
                          THEN "ok" ELSE "err"
                 ELSE "none"
    IN  IF st.picker_window.some
        THEN [st |-> [st EXCEPT !.picker_window = None, !.query = <<>>,
                                !.selected = None],
              eff |-> [NoEffect EXCEPT !.closed = st.picker_window,
                                       !.focus = focus]]
        ELSE [st |-> st, eff |-> [NoEffect EXCEPT !.focus = focus]]

\* ui.rs:147-152: Message::WindowClosed
WindowClosed(st, id) ==
    [st |-> IF st.picker_window = Some(id)
            THEN [st EXCEPT !.picker_window = None] ELSE st,
     eff |-> NoEffect]

\* ui.rs:153: Message::NoOp
NoOp(st) == [st |-> st, eff |-> NoEffect]

\* ui.rs:36-47: boot
boot(o, q) ==
    [query |-> <<>>, selected |-> None, filtered_count |-> 0,
     manager |-> Boot(o, q), picker_window |-> None]

\* the ids of the windows that are open or being closed
IdsInUse == pk.closing \cup (IF pk.st.picker_window.some
                             THEN {pk.st.picker_window.val} ELSE {})

\* the picker after a message: the new state, the closes asked for and not
\* yet reported, and the message with its effects
After(msg, r, delivered) ==
    [phase |-> "run", st |-> r.st,
     closing |-> (pk.closing \ delivered)
                    \cup (IF r.eff.closed.some THEN {r.eff.closed.val} ELSE {}),
     last |-> [msg |-> msg, eff |-> r.eff]]

PickerInit ==
    /\ \E o \in PickerOsStates : \E q \in QueryOutcomes :
          pk = [phase |-> "run", st |-> boot(o, q), closing |-> {},
                last |-> [msg |-> "boot",
                          eff |-> [NoEffect EXCEPT !.refreshed = TRUE]]]
    /\ foc = FocusIdle
    /\ rs = ResolverIdle
    /\ en = EnumIdle
    /\ ic = IconIdle
    /\ MgrIdle

\* the hotkey is released (ui.rs:309-315); window::open gives an id not in use
OnShowPicker ==
    /\ pk.phase = "run"
    /\ pk.st.picker_window.some \/ PickerIds \ IdsInUse # {}
    /\ \E o \in PickerOsStates : \E q \in QueryOutcomes :
          LET free == PickerIds \ IdsInUse
              id   == IF free = {} THEN 0
                      ELSE CHOOSE i \in free : \A j \in free : i <= j
          IN  pk' = After("ShowPicker", ShowPicker(pk.st, o, q, id), {})
    /\ UNCHANGED <<mvars, foc, rs, en, ic>>

OnHidePicker ==
    /\ pk.phase = "run"
    /\ pk' = After("HidePicker", HidePicker(pk.st), {})
    /\ UNCHANGED <<mvars, foc, rs, en, ic>>

OnQueryChanged ==
    /\ pk.phase = "run"
    /\ \E query \in Queries :
          pk' = After("QueryChanged", QueryChanged(pk.st, query), {})
    /\ UNCHANGED <<mvars, foc, rs, en, ic>>

OnSelectNext ==
    /\ pk.phase = "run"
    /\ pk' = After("SelectNext", SelectNext(pk.st), {})
    /\ UNCHANGED <<mvars, foc, rs, en, ic>>

OnSelectPrev ==
    /\ pk.phase = "run"
    /\ pk' = After("SelectPrev", SelectPrev(pk.st), {})
    /\ UNCHANGED <<mvars, foc, rs, en, ic>>

OnConfirm ==
    /\ pk.phase = "run"
    /\ \E e \in ConfirmEnvs :
          pk' = After("Confirm", ConfirmSelected(pk.st, e), {})
    /\ UNCHANGED <<mvars, foc, rs, en, ic>>

\* ui.rs:283: window::close_events(), for a window whose close was asked
\* for or that was closed from outside
OnWindowClosed ==
    /\ pk.phase = "run"
    /\ \E id \in IdsInUse :
          pk' = After("WindowClosed", WindowClosed(pk.st, id), {id})
    /\ UNCHANGED <<mvars, foc, rs, en, ic>>

\* ui.rs:313: a tick without a hotkey event
OnNoOp ==
    /\ pk.phase = "run"
    /\ pk' = After("NoOp", NoOp(pk.st), {})
    /\ UNCHANGED <<mvars, foc, rs, en, ic>>

PickerNext ==
    \/ OnShowPicker
    \/ OnHidePicker
    \/ OnQueryChanged
    \/ OnSelectNext
    \/ OnSelectPrev
    \/ OnConfirm
    \/ OnWindowClosed
    \/ OnNoOp

PickerSpec == PickerInit /\ [][PickerNext]_vars

(***************************************************************************)
(* Properties of the inventory manager.                                    *)
(***************************************************************************)
\* the window ids published under pid p
PublishedWids(m, p) ==
    IF p \in DOMAIN m.app_map
    THEN {m.app_map[p].windows[i].id : i \in DOMAIN m.app_map[p].windows}
    ELSE {}

\* how often x occurs in the sequence s
Count(s, x) == Cardinality({i \in DOMAIN s : s[i] = x})

\* two inventories hold the same apps with the same windows, in any order
SameInventory(a, b) ==
    /\ DOMAIN a = DOMAIN b
    /\ \A p \in DOMAIN a :
          /\ a[p].pid = b[p].pid
          /\ Len(a[p].windows) = Len(b[p].windows)
          /\ \A i \in DOMAIN a[p].windows :
                Count(a[p].windows, a[p].windows[i])
                    = Count(b[p].windows, a[p].windows[i])

RefreshedOk == last.op = "refresh" /\ last.ok

\* C1: when one of the two queries at the head of Manager::refresh fails, the
\* call returns the error and the published app map, the Handle Cache and the
\* Icon Cache are exactly what they were before the call, from any prior
\* state.
C1_FailedRefreshKeepsState ==
    [][/\ \A q \in QueryOutcomes \ {"ok"} : ~Refresh(mgr, os, q).ok
       /\ (last'.op = "refresh" /\ ~last'.ok) => mgr' = mgr]_vars

\* a refresh has just failed on a populated manager
C1_Witness ==
    /\ last.op = "refresh" /\ ~last.ok
    /\ \E p \in DOMAIN mgr.app_map : Len(mgr.app_map[p].windows) > 0
    /\ DOMAIN mgr.ax_cache # {}
    /\ DOMAIN mgr.icon_cache # {}

\* C2: after a successful refresh every Handle Cache key is a live window id
\* and every Icon Cache key is a live process id of the window list that this
\* refresh observed.
C2_CachesWithinLiveSets ==
    RefreshedOk =>
        LET infos == get_window_info_list(os)
        IN  /\ DOMAIN mgr.ax_cache \subseteq active_wids(infos)
            /\ DOMAIN mgr.icon_cache \subseteq active_pids(infos)

\* a successful refresh that ends with both caches populated while some
\* window id is not live
C2_Witness ==
    /\ RefreshedOk
    /\ DOMAIN mgr.ax_cache # {}
    /\ DOMAIN mgr.icon_cache # {}
    /\ active_wids(get_window_info_list(os)) # Wids

\* C3: a successful refresh that directly follows a successful refresh of the
\* same OS state leaves the inventory equal up to ordering and the key sets of
\* both caches equal.
C3_RefreshIdempotent ==
    [][(RefreshedOk /\ last'.op = "refresh" /\ last'.ok /\ os' = os) =>
          /\ SameInventory(mgr'.app_map, mgr.app_map)
          /\ DOMAIN mgr'.ax_cache = DOMAIN mgr.ax_cache
          /\ DOMAIN mgr'.icon_cache = DOMAIN mgr.icon_cache]_vars

\* a second refresh of the same OS state has run, with a window published and
\* a window the resolver cannot find
C3_Witness ==
    /\ RefreshedOk /\ last.again
    /\ \E p \in DOMAIN mgr.app_map : Len(mgr.app_map[p].windows) > 0
    /\ DOMAIN mgr.icon_cache # {}
    /\ \E w \in DOMAIN os.wins : w \notin DOMAIN mgr.ax_cache

FocusDone == foc.phase = "done"

\* the positions of the calls of an operation in the finished focus call
CallsOf(op) == {i \in DOMAIN foc.res.calls : foc.res.calls[i].op = op}

\* the OS refuses none of steps 1-3 (process lookup, set-front, two posts)
Steps123Succeed == FocusDone /\ foc.env.fail = "none"

\* the space the focused window is on
WindowSpace == IF foc.variant = "macos" THEN foc.win.space.id ELSE foc.env.space

\* the scan of focus_ax meets, within its range, an element of the window
ProbeWouldHit ==
    \E i \in ProbeRange : AxAnswer(foc.env.table, i).kind = "elem"
                          /\ AxAnswer(foc.env.table, i).wid = foc.win.id

C6_SetFrontFailureStops ==
    (FocusDone /\ foc.env.fail = "sfp") =>
        /\ ~foc.res.ok
        /\ \E i \in CallsOf("SetFrontProcess") :
              /\ ~foc.res.calls[i].ok
              /\ i = Len(foc.res.calls)
        /\ CallsOf("PostEventRecord") = {}
        /\ CallsOf("AXRaise") = {} /\ CallsOf("Activate") = {}
        /\ CallsOf("Warp") = {}

\* a focus call whose set-front-process was refused
C6_Witness ==
    /\ FocusDone /\ foc.env.fail = "sfp" /\ ~foc.res.ok
    /\ \E i \in CallsOf("SetFrontProcess") : ~foc.res.calls[i].ok

\* the place of an operation in the order of the protocol; 0 for the calls
\* the order does not name (queries and the scan)
Rank(c) ==
    CASE c.op = "GetProcessForPID" -> 1
      [] c.op = "SetFrontProcess" -> 2
      [] c.op = "PostEventRecord" /\ c.aux = 1 -> 3
      [] c.op = "PostEventRecord" /\ c.aux = 2 -> 4
      [] c.op \in {"Activate", "AXRaise"} -> 5
      [] c.op = "Warp" -> 6
      [] OTHER -> 0

\* the operations whose result focus inspects
Fallible(c) ==
    c.op \in {"GetProcessForPID", "SetFrontProcess", "PostEventRecord",
              "SLSGetWindowBounds"}

\* C7: the operations of a focus call come in the order process lookup,
\* set-front, post down, post up, activate or raise, warp, each at most once
\* and none before its predecessors among the first four; an operation is
\* performed only if every earlier operation whose result focus inspects
\* succeeded; a successful call posted exactly twice, down then up.
C7_FixedOrder ==
    FocusDone =>
        LET cs == foc.res.calls
        IN  /\ \A i, j \in DOMAIN cs :
                  (i < j /\ Rank(cs[i]) > 0 /\ Rank(cs[j]) > 0)
                      => Rank(cs[i]) < Rank(cs[j])
            /\ \A j \in DOMAIN cs : \A r \in 1..4 :
                  r < Rank(cs[j]) => \E i \in 1..(j - 1) : Rank(cs[i]) = r
            /\ \A i, j \in DOMAIN cs :
                  (i < j /\ Fallible(cs[i])) => cs[i].ok
            /\ foc.res.ok =>
                  /\ Cardinality(CallsOf("PostEventRecord")) = 2
                  /\ CallsOf("Warp") = {Len(cs)}

\* a successful focus call that went through all six operations
C7_Witness ==
    /\ FocusDone /\ foc.res.ok
    /\ \A r \in 1..6 : \E i \in DOMAIN foc.res.calls : Rank(foc.res.calls[i]) = r

\* C8, as stated: when steps 1-3 succeed, focus warps the pointer to the
\* centre of the window's bounds and returns success, whatever happens in
\* the activation step or while the bounds are obtained.
C8_WarpAlwaysFollows ==
    Steps123Succeed =>
        /\ foc.res.ok
        /\ \E i \in CallsOf("Warp") :
              foc.res.calls[i].pt =
                  Center(IF foc.variant = "macos" THEN foc.win.bounds
                         ELSE foc.env.rect)

\* C8, as the code has it: when steps 1-3 succeed, the simple variant ends
\* with a warp to the centre of the window's stored bounds and returns
\* success; the caching variant raises, asks the window server for the
\* bounds and, if it gets them, ends with a warp to their centre and returns
\* success, but returns an error without warping if it does not.  The result
\* of the raise changes nothing.
C8_WarpUnlessBoundsFail ==
    Steps123Succeed =>
        LET cs == foc.res.calls
        IN  /\ foc.variant = "macos" =>
                  /\ foc.res.ok
                  /\ CallsOf("Warp") = {Len(cs)}
                  /\ cs[Len(cs)].pt = Center(foc.win.bounds)
            /\ (foc.variant = "windows" /\ foc.env.bounds) =>
                  /\ foc.res.ok
                  /\ CallsOf("Warp") = {Len(cs)}
                  /\ cs[Len(cs)].pt = Center(foc.env.rect)
            /\ (foc.variant = "windows" /\ ~foc.env.bounds) =>
                  /\ ~foc.res.ok
                  /\ CallsOf("Warp") = {}
                  /\ CallsOf("AXRaise") # {}
                  /\ cs[Len(cs)].op = "SLSGetWindowBounds"

\* a caching-variant focus that passed steps 1-3 and the raise, was refused
\* the window's bounds and returned an error
C8_Witness ==
    /\ Steps123Succeed /\ foc.variant = "windows"
    /\ ~foc.env.bounds /\ ~foc.res.ok
    /\ CallsOf("AXRaise") # {}

(***************************************************************************)
(* Properties of the scans (ResolverSpec).                                 *)
(***************************************************************************)
\* C10: a scan requests a control object for at most 100 candidate indices,
\* none above 99, and the Resolver's result maps only windows it was asked
\* to resolve; the scan of focus_ax raises only an element of its window.
C10_ScanBounded ==
    rs.phase = "done" =>
        /\ rs.res.probes <= ProbeLimit
        /\ rs.res.maxidx <= ProbeLimit - 1
        /\ rs.res.maxidx = rs.res.probes - 1
        /\ rs.kind = "resolve" =>
              /\ DOMAIN rs.res.found \subseteq rs.wids
              /\ rs.res.rem = rs.wids \ DOMAIN rs.res.found
              /\ \A w \in DOMAIN rs.res.found :
                    /\ rs.res.found[w] \in ProbeRange
                    /\ AxAnswer(rs.table, rs.res.found[w]).wid = w
        /\ (rs.kind = "focus_ax" /\ rs.res.raised) =>
              AxAnswer(rs.table, rs.res.maxidx).wid \in rs.wids

\* a Resolver scan that went through the whole range, resolved one of its
\* windows and not another, while the process had an element beyond the range
C10_Witness ==
    /\ rs.phase = "done" /\ rs.kind = "resolve"
    /\ rs.res.probes = ProbeLimit
    /\ rs.res.found # EmptyMap /\ rs.res.rem # {}
    /\ rs.table.slots[ProbeLimit].kind = "elem"
    /\ rs.table.slots[ProbeLimit].wid \in rs.res.rem

(***************************************************************************)
(* Properties of the enumeration (EnumSpec).                               *)
(***************************************************************************)
\* C9: every window of the inventory an enumeration returns comes from an
\* entry of the window list with layer 0, is owned by a regular, not
\* terminated application, and has its id among the keys of the Space
\* catalog built by that enumeration, from which it takes its space; an
\* entry with another layer yields no window, whoever owns it.
C9_EmittedWindowsFiltered ==
    (en.phase = "done" /\ en.res.status = "ok") =>
        /\ \A p \in DOMAIN en.res.apps :
              /\ en.snap.apps[p] = "regular"
              /\ \A i \in DOMAIN en.res.apps[p].windows :
                    LET w == en.res.apps[p].windows[i]
                    IN  /\ \E k \in DOMAIN en.snap.list.entries :
                              /\ en.snap.list.entries[k].number = w.id
                              /\ en.snap.list.entries[k].layer = 0
                              /\ en.snap.list.entries[k].pid = p
                        /\ w.id \in DOMAIN en.res.catalog
                        /\ w.space = en.res.catalog[w.id]
        /\ \A k \in DOMAIN en.snap.list.entries :
              en.snap.list.entries[k].layer # 0 =>
                  \A p \in DOMAIN en.res.apps :
                      \A i \in DOMAIN en.res.apps[p].windows :
                          en.res.apps[p].windows[i].id
                              # en.snap.list.entries[k].number

\* an enumeration that returned an inventory with a window in it
C9_Witness ==
    /\ en.phase = "done" /\ en.res.status = "ok"
    /\ \E p \in DOMAIN en.res.apps : en.res.apps[p].windows # <<>>

\* the space types of a snapshot, in the order of enumeration
RECURSIVE FlatTypes(_)
FlatTypes(displays) ==
    IF displays = <<>> THEN <<>>
    ELSE [j \in 1..Len(Head(displays).spaces) |-> Head(displays).spaces[j].type]
         \o FlatTypes(Tail(displays))

\* the number of user spaces among the first k spaces of a sequence of types
UserSpacesUpTo(types, k) == Cardinality({j \in 1..k : types[j] = 0})

\* the catalog build of the enumeration went through every space
CatalogBuilt == en.phase = "done" /\ en.res.status \in {"ok", "err", "panic"}

\* C11: the k-th user space (type 0) in enumeration order over all displays
\* gets ordinal k, counting from 1 across displays; a space of another type
\* gets no ordinal and does not advance the count.
C11_OrdinalsCountUserSpaces ==
    CatalogBuilt =>
        LET types == FlatTypes(en.snap.catalog.displays)
        IN  /\ Len(en.res.indices) = Len(types)
            /\ \A k \in DOMAIN types :
                  en.res.indices[k] =
                      IF types[k] = 0 THEN Some(UserSpacesUpTo(types, k)) ELSE None

\* two displays with one user space each: the ordinals are 1 and 2
C11_Witness ==
    /\ CatalogBuilt
    /\ Len(en.snap.catalog.displays) = 2
    /\ en.res.indices = <<Some(1), Some(2)>>

\* ---------------------------------------------------------------------
\* The caches over the life of the manager (CacheSpec)
\* ---------------------------------------------------------------------

\* the live sets of the snapshot a refresh has just read
LiveWids == active_wids(get_window_info_list(os))
LivePids == active_pids(get_window_info_list(os))
LiveOf(p) == {w \in LiveWids : os.wins[w].pid = p}

\* C12 as stated: while a process stays alive its icon is fetched and
\* inserted at most once: a refresh never fetches the icon of a cached pid,
\* never replaces it, and removes it only when the process is gone.
C12_IconKeptWhileAlive ==
    RefreshedOk =>
        \A p \in DOMAIN last.pre.icon_cache :
            /\ p \notin last.log.fetched
            /\ IsRunning(os.apps[p]) =>
                  /\ p \in DOMAIN mgr.icon_cache
                  /\ mgr.icon_cache[p] = last.pre.icon_cache[p]

\* C12 amended: a cached icon is neither fetched again nor replaced while
\* its pid owns a live window at each successful refresh; it is removed by
\* the first successful refresh at which the pid owns no live window,
\* whether or not the process is still running; an icon enters the cache
\* only by a fetch for a pid that owns a live window.
C12_IconKeptWhileOwningWindows ==
    RefreshedOk =>
        /\ \A p \in DOMAIN last.pre.icon_cache :
              /\ p \notin last.log.fetched
              /\ p \in LivePids =>
                    /\ p \in DOMAIN mgr.icon_cache
                    /\ mgr.icon_cache[p] = last.pre.icon_cache[p]
              /\ p \notin LivePids => p \notin DOMAIN mgr.icon_cache
        /\ \A p \in (DOMAIN mgr.icon_cache) \ DOMAIN last.pre.icon_cache :
              p \in last.log.fetched /\ p \in LivePids

\* a running process whose icon was cached lost it at a successful refresh
C12_Witness ==
    /\ RefreshedOk
    /\ \E p \in DOMAIN last.pre.icon_cache :
          /\ IsRunning(os.apps[p])
          /\ p \notin DOMAIN mgr.icon_cache

\* C13: a handle cached for a window that is still live is the same handle
\* after a successful refresh: eviction keeps it and no resolver result
\* overwrites it.
C13_LiveHandleSurvives ==
    RefreshedOk =>
        \A w \in (DOMAIN last.pre.ax_cache) \cap LiveWids :
            /\ w \in DOMAIN mgr.ax_cache
            /\ mgr.ax_cache[w] = last.pre.ax_cache[w]

\* a cached handle survived a refresh at which a fresh resolution would have
\* answered otherwise
C13_Witness ==
    /\ RefreshedOk
    /\ \E w \in (DOMAIN last.pre.ax_cache) \cap LiveWids :
          /\ os.wins[w].ax # last.pre.ax_cache[w]
          /\ mgr.ax_cache[w] = last.pre.ax_cache[w]

\* C16: a focus call and the accessors leave the application map, the handle
\* cache and the icon cache as they were; only refresh changes them.
C16_OnlyRefreshMutates ==
    last.op # "refresh" => mgr = last.pre

\* a focus call failed on a manager whose map and caches are populated
C16_Witness ==
    /\ last.op = "focus"
    /\ ~last.ok
    /\ DOMAIN mgr.app_map # {}
    /\ DOMAIN mgr.ax_cache # {}
    /\ DOMAIN mgr.icon_cache # {}

NullAnswered(snap) ==
    \/ snap.catalog.null
    \/ \E i \in DOMAIN snap.catalog.displays :
          \E j \in DOMAIN snap.catalog.displays[i].spaces :
              snap.catalog.displays[i].spaces[j].null

\* C14: when the managed-display-spaces query or a per-space window query
\* answers with a null pointer, the enumeration returns an error to its
\* caller, and with it neither an inventory nor a catalog.
C14_NullPointerReturnsError ==
    (en.phase = "done" /\ NullAnswered(en.snap)) =>
        /\ en.res.status = "err"
        /\ en.res.apps = EmptyMap

\* the normalisation of a bitmap of W x H pixels of the given depth, with
\* no padding in its rows, has run
Normalized(bpp) ==
    ic.phase = "done" /\ ic.img.data /\ ic.img.pad = 0 /\ ic.img.bpp = bpp

\* C15: a 32-bit bitmap of W x H pixels normalises to W*H*4 bytes equal to
\* the source byte for byte; a 24-bit one to W*H*4 bytes where bytes 4k..4k+2
\* are the k-th RGB triple and byte 4k+3 is 255.
C15_IconBytesRoundTrip ==
    LET n == ic.img.w * ic.img.h
    IN  /\ Normalized(32) =>
              /\ ic.res.status = "some"
              /\ Len(ic.res.bytes) = n * 4
              /\ ic.res.bytes = RawData(ic.img)
        /\ Normalized(24) =>
              /\ ic.res.status = "some"
              /\ Len(ic.res.bytes) = n * 4
              /\ \A k \in 0..(n - 1) :
                    /\ <<ic.res.bytes[4 * k + 1], ic.res.bytes[4 * k + 2],
                         ic.res.bytes[4 * k + 3]>> = ic.img.px[k + 1]
                    /\ ic.res.bytes[4 * k + 4] = 255

\* the posted event records of the finished focus call, in order
Posts == [k \in 1..Cardinality(CallsOf("PostEventRecord")) |->
            foc.res.calls[CHOOSE i \in CallsOf("PostEventRecord") :
                Cardinality({j \in CallsOf("PostEventRecord") : j <= i}) = k]]

\* nothing of steps 4 and 5 was done
NoActivationNoWarp ==
    /\ CallsOf("Activate") = {} /\ CallsOf("AXRaise") = {}
    /\ CallsOf("AXCreateWithRemoteToken") = {} /\ CallsOf("SLSGetActiveSpace") = {}
    /\ CallsOf("SLSGetWindowBounds") = {} /\ CallsOf("Warp") = {}

\* C17: the key-window step posts the down record (0x01) first and the up
\* record (0x02) second and looks at the result of each: when the down post
\* fails the up record is never posted, and when either fails focus returns
\* the key-window error with that post as its last call: nothing is
\* activated or raised and the pointer is not warped.
C17_KeyWindowDownThenUp ==
    FocusDone =>
        /\ Len(Posts) <= 2
        /\ Len(Posts) >= 1 => Posts[1].rec[9] = 1
        /\ Len(Posts) = 2 => Posts[1].ok /\ Posts[2].rec[9] = 2
        /\ foc.env.fail = "down" => Len(Posts) = 1 /\ ~Posts[1].ok
        /\ foc.env.fail = "up" => Len(Posts) = 2 /\ ~Posts[2].ok
        /\ foc.env.fail \in {"down", "up"} =>
              /\ ~foc.res.ok /\ foc.res.err = "key"
              /\ foc.res.calls[Len(foc.res.calls)].op = "PostEventRecord"
              /\ NoActivationNoWarp
        /\ foc.res.err = "key" => foc.env.fail \in {"down", "up"}

\* a focus call whose down post was refused
C17_Witness ==
    /\ FocusDone /\ foc.env.fail = "down"
    /\ Len(Posts) = 1 /\ ~Posts[1].ok /\ foc.res.err = "key"

\* C18: when the lookup of the process serial number fails, focus returns
\* that error at once: the lookup is its only call, and nothing is set
\* front, posted, activated, raised or warped.
C18_PsnFailureStops ==
    (FocusDone /\ foc.env.fail = "psn") =>
        /\ ~foc.res.ok /\ foc.res.err = "psn"
        /\ Len(foc.res.calls) = 1
        /\ foc.res.calls[1].op = "GetProcessForPID" /\ ~foc.res.calls[1].ok
        /\ CallsOf("SetFrontProcess") = {} /\ CallsOf("PostEventRecord") = {}
        /\ NoActivationNoWarp

\* a focus call whose process lookup was refused
C18_Witness ==
    /\ FocusDone /\ foc.env.fail = "psn" /\ foc.res.err = "psn"
    /\ CallsOf("GetProcessForPID") = {1}

\* the window id a record carries at offsets 0x3c..0x3f, least significant
\* byte first
RecordWid(rec) == rec[61] + 256 * rec[62] + 65536 * rec[63] + 16777216 * rec[64]

\* C19: every posted event record is 0xf8 bytes long, with 0xf8 at offset
\* 0x04, 0x10 at 0x3a, 0xff at 0x20..0x2f, the low 32 bits of the window id
\* at 0x3c..0x3f in native order, the flavor at 0x08 and zero elsewhere; the
\* two records of a call differ at offset 0x08 only, and the id they carry
\* is the window hint of the set-front call.
C19_EventRecordLayout ==
    FocusDone =>
        LET posts == Posts
        IN  /\ \A k \in DOMAIN posts :
                  LET rec == posts[k].rec
                  IN  /\ Len(rec) = 248
                      /\ rec[5] = 248 /\ rec[59] = 16
                      /\ \A o \in 32..47 : rec[o + 1] = 255
                      /\ rec[9] \in {1, 2}
                      /\ \A o \in (0..247) \ ({4, 8, 58} \cup (32..47) \cup (60..63)) :
                            rec[o + 1] = 0
                      /\ RecordWid(rec) = foc.win.id
                      /\ \A i \in CallsOf("SetFrontProcess") :
                            foc.res.calls[i].wid = RecordWid(rec)
            /\ \A k, l \in DOMAIN posts :
                  [posts[k].rec EXCEPT ![9] = 0] = [posts[l].rec EXCEPT ![9] = 0]

\* both records were posted for a window whose id fills all four bytes
C19_Witness ==
    /\ FocusDone /\ Len(Posts) = 2
    /\ Posts[1].rec[9] = 1 /\ Posts[2].rec[9] = 2
    /\ \A o \in 61..64 : Posts[1].rec[o] \notin {0, 255}
    /\ \E i \in CallsOf("SetFrontProcess") :
          foc.res.calls[i].wid = RecordWid(Posts[1].rec)

\* the candidate indices of the range at which the process answers with an
\* element of window w (a standard window, for the Resolver)
MatchesAt(w) ==
    {i \in ProbeRange :
        /\ AxAnswer(rs.table, i).kind = "elem"
        /\ AxAnswer(rs.table, i).wid = w
        /\ rs.kind = "resolve" => AxAnswer(rs.table, i).std}

\* the least element of a non-empty set of indices
Least(S) == CHOOSE i \in S : \A j \in S : i <= j

\* C21: a scan stops at the probe that matches its last unresolved window:
\* no index is asked for after it; every window is recorded once, at the
\* first candidate that matches it, whatever later candidates answer.
C21_ScanStopsWhenDone ==
    rs.phase = "done" =>
        /\ rs.kind = "focus_ax" =>
              LET m == MatchesAt(CHOOSE w \in rs.wids : TRUE)
              IN  IF m = {} THEN ~rs.res.raised /\ rs.res.probes = ProbeLimit
                  ELSE /\ rs.res.raised
                       /\ rs.res.maxidx = Least(m)
                       /\ rs.res.probes = Least(m) + 1
        /\ rs.kind = "resolve" =>
              /\ \A w \in rs.wids :
                    IF MatchesAt(w) = {} THEN w \notin DOMAIN rs.res.found
                    ELSE /\ w \in DOMAIN rs.res.found
                         /\ rs.res.found[w] = Least(MatchesAt(w))
              /\ rs.res.rem = {} =>
                    /\ \E w \in rs.wids : rs.res.maxidx = rs.res.found[w]
                    /\ \A w \in rs.wids : rs.res.found[w] <= rs.res.maxidx
              /\ rs.res.rem # {} => rs.res.probes = ProbeLimit

\* a scan of focus_ax that raised at the first index and left unasked a later
\* candidate of the same window
C21_Witness ==
    /\ rs.phase = "done" /\ rs.kind = "focus_ax"
    /\ rs.res.raised /\ rs.res.probes = 1
    /\ Cardinality(MatchesAt(CHOOSE w \in rs.wids : TRUE)) = 2

\* the windows the inventory publishes for process p, in order
Published(p) ==
    IF p \in DOMAIN mgr.app_map
    THEN [i \in DOMAIN mgr.app_map[p].windows |-> mgr.app_map[p].windows[i].id]
    ELSE <<>>

\* C24: an application whose icon cannot be normalised does not make a
\* refresh fail: the refresh whose queries answer succeeds, the application
\* is published with its live windows that have a handle, no icon is
\* inserted for it, and the icon lookup of a pid that had none answers none.
C24_IconFailureNotFatal ==
    \A p \in Pids :
        os.apps[p] = "noicon" =>
            /\ Refresh(mgr, os, "ok").ok
            /\ RefreshedOk =>
                  /\ p \in DOMAIN mgr.icon_cache => p \in DOMAIN last.pre.icon_cache
                  /\ p \notin DOMAIN last.pre.icon_cache => get_icon(mgr, p) = {}
                  /\ p \in LivePids =>
                        /\ p \in DOMAIN app_map(mgr)
                        /\ {Published(p)[i] : i \in DOMAIN Published(p)}
                              = LiveOf(p) \cap DOMAIN mgr.ax_cache

\* an application without a usable icon is published with a window and the
\* lookup of its icon has just answered none
C24_Witness ==
    /\ last.op = "read" /\ last.val = {}
    /\ \E p \in Pids :
          /\ os.apps[p] = "noicon"
          /\ Published(p) # <<>>
          /\ get_icon(mgr, p) = {}

\* the manager is in the state of Manager::default()
Empty(m) == m = DefaultManager

\* C26, as stated: a refresh that fails on the empty manager (the one of
\* startup among them) leaves the empty manager, whose icon lookups answer
\* none; a populated manager becomes empty only by a successful refresh that
\* observes no live window.
C26_EmptiedOnlyWithoutWindows ==
    /\ (last.op = "refresh" /\ ~last.ok /\ Empty(last.pre)) =>
          Empty(mgr) /\ \A p \in Pids : get_icon(mgr, p) = {}
    /\ (~Empty(last.pre) /\ Empty(mgr)) =>
          RefreshedOk /\ LiveWids = {}

\* the snapshot of a refresh gives the manager nothing to hold: no live
\* window has a cached handle or gets one, and no owner of a live window is
\* a running regular application or has a cached icon
NothingToHold ==
    \A w \in LiveWids :
        /\ w \notin DOMAIN last.pre.ax_cache
        /\ os.wins[w].ax = "none"
        /\ os.apps[os.wins[w].pid] = "absent"
        /\ os.wins[w].pid \notin DOMAIN last.pre.icon_cache

\* C26, as the code has it: a refresh that fails on the empty manager leaves
\* it empty; no failing refresh and no other call empties a populated
\* manager; a successful refresh leaves the manager empty exactly when its
\* snapshot gives it nothing to hold, which is so when there is no live
\* window but also when the live windows have no handle and their owners are
\* not published and have no icon.
C26_EmptyIffNothingToHold ==
    /\ (last.op = "refresh" /\ ~last.ok /\ Empty(last.pre)) =>
          Empty(mgr) /\ \A p \in Pids : get_icon(mgr, p) = {}
    /\ (~Empty(last.pre) /\ Empty(mgr)) => RefreshedOk
    /\ RefreshedOk => (Empty(mgr) <=> NothingToHold)

\* a successful refresh emptied a populated manager while a window was live
C26_Witness ==
    /\ RefreshedOk
    /\ ~Empty(last.pre) /\ Empty(mgr)
    /\ LiveWids # {}

\* C27: every window of the published app map has an entry in the handle
\* cache under its id, and carries the handle of that entry.
C27_PublishedWindowsHaveCachedHandle ==
    \A p \in DOMAIN mgr.app_map :
        \A i \in DOMAIN mgr.app_map[p].windows :
            LET w == mgr.app_map[p].windows[i]
            IN  /\ w.id \in DOMAIN mgr.ax_cache
                /\ mgr.ax_cache[w.id] = w.ax_element

\* a live window that cannot be resolved is left out of a published
\* application's windows
C27_Witness ==
    /\ RefreshedOk
    /\ \E w \in LiveWids :
          /\ w \notin DOMAIN mgr.ax_cache
          /\ os.wins[w].pid \in DOMAIN mgr.app_map
          /\ \A i \in DOMAIN Published(os.wins[w].pid) :
                Published(os.wins[w].pid)[i] # w

\* C30, as stated: after a successful refresh every key of the icon cache is
\* a key of the published app map.
C30_IconKeysPublished ==
    RefreshedOk => DOMAIN mgr.icon_cache \subseteq DOMAIN mgr.app_map

\* C30, as the code has it: after a successful refresh every key of the icon
\* cache is a pid that owns a live window, and it is a key of the published
\* app map exactly when the process is then a running, regular, not
\* terminated application; the icon of a process that keeps its windows but
\* stops being such an application stays in the cache.
C30_IconKeysOwnLiveWindows ==
    RefreshedOk =>
        \A p \in DOMAIN mgr.icon_cache :
            /\ p \in LivePids
            /\ p \in DOMAIN mgr.app_map <=> os.apps[p] \in {"regular", "noicon"}

\* the icon of a terminated process that keeps a live window is still cached
\* after a successful refresh, and the process is not published
C30_Witness ==
    /\ RefreshedOk
    /\ \E p \in DOMAIN mgr.icon_cache :
          /\ os.apps[p] = "terminated"
          /\ p \in LivePids
          /\ p \notin DOMAIN mgr.app_map

\* ---------------------------------------------------------------------
\* More properties of the enumeration (EnumSpec)
\* ---------------------------------------------------------------------

EnumOk == en.phase = "done" /\ en.res.status = "ok"

\* the k-th entry of the window list has layer 0, an owner that is a kept
\* application and a number that is a key of the Space catalog as built
Candidate(k) ==
    LET e == en.snap.list.entries[k]
    IN  /\ e.layer = 0
        /\ en.snap.apps[e.pid] = "regular"
        /\ e.number \in DOMAIN en.res.catalog

\* the k-th entry passes the filter of the window loop when it is reached:
\* it is the first candidate with its number, whose Space is still in the map
Passes(k) ==
    /\ Candidate(k)
    /\ \A j \in 1..(k - 1) :
          Candidate(j) => en.snap.list.entries[j].number # en.snap.list.entries[k].number

\* the windows of the returned inventory, as <<pid, position>>
Attached ==
    UNION {{<<p, i>> : i \in DOMAIN en.res.apps[p].windows} : p \in DOMAIN en.res.apps}

\* C22: when an entry that passes the filter has no bounds dictionary or one
\* that represents no rectangle, the enumeration returns an error to its
\* caller and no inventory.
C22_BadBoundsReturnsError ==
    (/\ en.phase = "done" /\ ~NullAnswered(en.snap) /\ ~en.snap.list.none
     /\ \E k \in DOMAIN en.snap.list.entries :
           Passes(k) /\ en.snap.list.entries[k].bounds # "rect")
    => (en.res.status = "err" /\ en.res.apps = EmptyMap)

\* the spaces of a snapshot in enumeration order, each with the position and
\* the identifier of its display
RECURSIVE FlatSpaces(_, _)
FlatSpaces(displays, i) ==
    IF i > Len(displays) THEN <<>>
    ELSE [j \in 1..Len(displays[i].spaces) |->
             [display |-> i, uuid |-> displays[i].uuid, sp |-> displays[i].spaces[j]]]
         \o FlatSpaces(displays, i + 1)

\* C23: the Space catalog maps a window to the Space of the last space, in
\* enumeration order, whose window listing holds it: the 1-based position of
\* that space's display, the display's identifier, the space's ordinal and
\* its id; a window that no space lists has no entry.
C23_LastSpaceWins ==
    CatalogBuilt =>
        LET flat == FlatSpaces(en.snap.catalog.displays, 1)
            types == [k \in DOMAIN flat |-> flat[k].sp.type]
        IN  \A w \in EnumWids :
                LET at == {k \in DOMAIN flat : w \in flat[k].sp.wins}
                IN  IF at = {} THEN w \notin DOMAIN en.res.catalog
                    ELSE LET k == CHOOSE x \in at : \A y \in at : y <= x
                         IN  /\ w \in DOMAIN en.res.catalog
                             /\ en.res.catalog[w] =
                                   [display |-> flat[k].display,
                                    display_uuid |-> flat[k].uuid,
                                    index |-> IF types[k] = 0
                                              THEN Some(UserSpacesUpTo(types, k))
                                              ELSE None,
                                    id |-> flat[k].sp.id]

\* a window listed by a space of each of two displays is given to the second
C23_Witness ==
    /\ CatalogBuilt
    /\ \E w \in EnumWids :
          /\ \A i \in {1, 2} :
                /\ i \in DOMAIN en.snap.catalog.displays
                /\ \E j \in DOMAIN en.snap.catalog.displays[i].spaces :
                      w \in en.snap.catalog.displays[i].spaces[j].wins
          /\ en.res.catalog[w].display = 2

C25_RefreshOnlyOnShow ==
    /\ pk.last.msg = "boot" /\ pk.last.eff.refreshed
    /\ [][LET l    == pk'.last
              open == pk.st.picker_window.some
          IN  /\ l.eff.refreshed <=> (l.msg = "ShowPicker" /\ ~open)
              /\ l.eff.opened.some <=> (l.msg = "ShowPicker" /\ ~open)
              /\ l.eff.opened.some =>
                    /\ pk'.st.picker_window = l.eff.opened
                    /\ l.eff.opened.val \notin IdsInUse
              /\ (l.msg = "ShowPicker" /\ open) =>
                    /\ pk'.st = pk.st
                    /\ pk'.closing = pk.closing
                    /\ l.eff = NoEffect]_vars

\* a ShowPicker has just arrived while a picker window was recorded
C25_Witness ==
    /\ pk.last.msg = "ShowPicker"
    /\ ~pk.last.eff.refreshed
    /\ pk.st.picker_window.some

\* the selection, if any, is below filtered_count and is an index of the
\* list get_filtered_items returns now (indices count from 0)
SelectionValid ==
    pk.st.selected.some =>
        /\ pk.st.selected.val >= 0
        /\ pk.st.selected.val < pk.st.filtered_count
        /\ pk.st.selected.val + 1 \in DOMAIN get_filtered_items(pk.st)

\* C31: after boot and after every message the selection, if any, is below
\* filtered_count and a valid index of the filtered list; SelectNext moves a
\* selection i to the smaller of i + 1 and filtered_count - 1, SelectPrev
\* moves it to the larger of i - 1 and 0, and neither changes anything else.
C31_SelectionInRange ==
    /\ SelectionValid
    /\ [][LET a == pk.st
              b == pk'.st
              n == a.filtered_count
          IN  /\ SelectionValid'
              /\ (pk'.last.msg = "SelectNext" /\ a.selected.some /\ n > 0) =>
                    b = [a EXCEPT !.selected =
                            Some(IF a.selected.val + 1 <= n - 1
                                 THEN a.selected.val + 1 ELSE n - 1)]
              /\ (pk'.last.msg = "SelectPrev" /\ a.selected.some /\ n > 0) =>
                    b = [a EXCEPT !.selected =
                            Some(IF a.selected.val - 1 >= 0
                                 THEN a.selected.val - 1 ELSE 0)]]_vars

\* SelectNext has just left the selection on the last of at least two items
C31_Witness ==
    /\ pk.last.msg = "SelectNext"
    /\ pk.st.filtered_count >= 2
    /\ pk.st.selected = Some(pk.st.filtered_count - 1)

\* C32, as stated: after every Confirm no picker window is recorded, the
\* query is empty and nothing is selected, whether an item was selected or
\* not and whatever the focus answered, and the inventory is as before.
C32_ConfirmAlwaysClears ==
    [][pk'.last.msg = "Confirm" =>
          /\ ~pk'.st.picker_window.some
          /\ pk'.st.query = <<>>
          /\ ~pk'.st.selected.some
          /\ pk'.st.manager = pk.st.manager]_vars

\* C32, as the code has it: a Confirm never changes the inventory and leaves
\* no picker window recorded; the focus is attempted exactly when the
\* selection is an index of the filtered list, and its result is dropped.
\* When a picker window is recorded, its close is asked for and the query
\* and the selection are cleared, whether an item was selected or not and
\* whether the focus succeeded or failed; when none is recorded, the query
\* and the selection stay as they were.
C32_ConfirmClosesRecordedPicker ==
    [][pk'.last.msg = "Confirm" =>
          LET a == pk.st
              b == pk'.st
              l == pk'.last
          IN  /\ b.manager = a.manager
              /\ b.filtered_count = a.filtered_count
              /\ ~b.picker_window.some
              /\ l.eff.focus \in {"none", "ok", "err"}
              /\ l.eff.focus # "none" <=>
                    /\ a.selected.some
                    /\ a.selected.val + 1 \in DOMAIN get_filtered_items(a)
              /\ ~l.eff.refreshed /\ ~l.eff.opened.some
              /\ a.picker_window.some =>
                    /\ b.query = <<>>
                    /\ b.selected = None
                    /\ l.eff.closed = a.picker_window
              /\ ~a.picker_window.some =>
                    /\ b = a
                    /\ l.eff.closed = None]_vars

\* a Confirm whose focus failed has just closed the recorded picker window
C32_Witness ==
    /\ pk.last.msg = "Confirm"
    /\ pk.last.eff.focus = "err"
    /\ pk.last.eff.closed.some
    /\ ~pk.st.picker_window.some
    /\ pk.st.query = <<>> /\ pk.st.selected = None

====
